---- MODULE Spec2Model ----
(***************************************************************************)
(* Combat round engine and status-effect processor of Elemental Realms     *)
(* (src/ElementalRealms.py): CombatSystem.party_vs_enemies,                *)
(* CombatSystem.calculate_damage, Character.process_status_effects,        *)
(* Player.auto_use_consumables / Player.use_consumable.                    *)
(* Called on their own: CombatSystem.calculate_damage,                     *)
(* ItemGenerator.generate_item (both files), Character.update_relationship,*)
(* get_mob_properties / create_enemy, and the Player methods equip_item,   *)
(* check_level_up, use_consumable.                                         *)
(*                                                                         *)
(* Numbers: random.uniform draws are carried in hundredths (80..120 for    *)
(* U(0.8,1.2), 70..100 for U(0.7,1.0)); random.random() draws and trigger  *)
(* chances are carried in thousandths.  int() truncation is \div on the    *)
(* non-negative scaled value.  The arithmetic is exact: the binary         *)
(* rounding of Python floats (9 * 1.2 - 4 * 0.7 evaluating to 7.99...) is  *)
(* not modelled; the stats of the checked rosters (attack 2 and 5,         *)
(* defense 2) give the same integers in both.                              *)
(***************************************************************************)
EXTENDS Integers, Sequences, FiniteSets, TLC

VARIABLES
  player_party,   \* list of Character records (argument player_party)
  enemies,        \* list of Character records (argument enemies)
  pc,             \* position inside party_vs_enemies
  idx,            \* index of the running for-loop
  round_counter,  \* local round_counter
  result,         \* value returned by party_vs_enemies ("None" before return)
  entry,          \* history: both rosters as passed to party_vs_enemies
  round_start,    \* history: both rosters when the current round began
  last,           \* history: the step executed most recently
  zeroed,         \* history: actors brought to 0 health by an attack this round
  calls,          \* number of stand-alone method calls made
  midpoint,       \* history: every damage draw so far was the middle of its range
  call,           \* the stand-alone call made most recently, with its outcome
  hero,           \* a Player object (stats, equipment, inventory, effects)
  relationships,  \* an observer's self.relationships, keyed by other.name
  music_player,   \* the global MusicPlayer instance (thread, stop_event, track)
  threads,        \* the threading.Thread objects created so far, by creation
  main            \* the main thread's position inside play() or stop()

vars == <<player_party, enemies, pc, idx, round_counter, result, entry,
          round_start, last, zeroed, calls, midpoint, call, hero,
          relationships, music_player, threads, main>>

\* the MusicPlayer and the threads that run it
audio == <<music_player, threads, main>>

\* the objects that party_vs_enemies does not touch
objects == <<call, hero, relationships, audio>>

-----------------------------------------------------------------------------
(* Bounds of the checked inputs *)

MaxRevives == 1
MaxTurns == 3
MaxStat == 12      \* largest attack / defense passed to calculate_damage alone
MaxTier == 5       \* item tiers and levels run over -MaxTier..MaxTier
MaxUpdates == 4    \* update_relationship calls made on one observer
MaxHeroCalls == 5  \* method calls made on one Player object

Max(a, b) == IF a >= b THEN a ELSE b
Min(a, b) == IF a <= b THEN a ELSE b

-----------------------------------------------------------------------------
(* Data *)

DamagingEffects == {"Burn", "Poisoned", "Shocked", "Bleed"}
DisablingEffects == {"Frozen", "Stunned"}

NoEffects == [n \in {} |-> [turns |-> 0, damage_per_turn |-> 0]]

NoWeapon == [effect |-> "None", effect_chance |-> 0]

AddEffect(fx, name, e) ==
  [n \in (DOMAIN fx) \cup {name} |-> IF n = name THEN e ELSE fx[n]]

Character(kind, health, max_health, attack, defense, element, alive) ==
  [kind |-> kind, health |-> health, max_health |-> max_health,
   attack |-> attack, defense |-> defense, element |-> element,
   alive |-> alive, status_effects |-> NoEffects,
   revives |-> 0, inventory |-> <<>>, weapon |-> NoWeapon]

\* Consumable(name, heal_value=...); value is the draw 10 of __post_init__
Consumable(name, heal_value) ==
  [name |-> name, value |-> 10, consumable |-> TRUE, heal_value |-> heal_value,
   duration |-> 0, buff_effect |-> "None", effect_percentage |-> 0]

RECURSIVE SumOver(_, _)
SumOver(f, S) ==
  IF S = {} THEN 0
  ELSE LET x == CHOOSE y \in S : TRUE IN f[x] + SumOver(f, S \ {x})

-----------------------------------------------------------------------------
(* Character.process_status_effects *)

\* variant: the decrement sits inside the damaging-effect branch
process_status_effects_dot_only(c) ==
  LET fx == c.status_effects
      dmg == [n \in DOMAIN fx |->
                IF n \in DamagingEffects THEN fx[n].damage_per_turn ELSE 0]
      left == [n \in DOMAIN fx |->
                 IF n \in DamagingEffects THEN fx[n].turns - 1 ELSE fx[n].turns]
      kept == {n \in DOMAIN fx : left[n] > 0}
  IN [c EXCEPT
        !.health = c.health - SumOver(dmg, DOMAIN fx),
        !.status_effects = [n \in kept |-> [fx[n] EXCEPT !.turns = left[n]]]]

\* variant: an effect is removed only when its turns fall below 0
process_status_effects_late_removal(c) ==
  LET fx == c.status_effects
      dmg == [n \in DOMAIN fx |->
                IF n \in DamagingEffects THEN fx[n].damage_per_turn ELSE 0]
      kept == {n \in DOMAIN fx : fx[n].turns - 1 >= 0}
  IN [c EXCEPT
        !.health = c.health - SumOver(dmg, DOMAIN fx),
        !.status_effects = [n \in kept |-> [fx[n] EXCEPT !.turns = @ - 1]]]

process_status_effects(c) ==
  LET fx == c.status_effects
      dmg == [n \in DOMAIN fx |->
                IF n \in DamagingEffects THEN fx[n].damage_per_turn ELSE 0]
      kept == {n \in DOMAIN fx : fx[n].turns - 1 > 0}
  IN [c EXCEPT
        !.health = c.health - SumOver(dmg, DOMAIN fx),
        !.status_effects = [n \in kept |-> [fx[n] EXCEPT !.turns = @ - 1]]]

-----------------------------------------------------------------------------
(* Player.use_consumable and Player.auto_use_consumables *)

use_consumable(c, item) ==
  IF item.heal_value > 0
    THEN [c EXCEPT !.health = @ + Min(item.heal_value, c.max_health - c.health)]
  ELSE IF item.buff_effect # "None"
    THEN [c EXCEPT !.status_effects =
            AddEffect(@, item.buff_effect,
                      [turns |-> item.duration,
                       buff_percentage |-> item.effect_percentage])]
  ELSE c

RemoveAt(s, j) == [k \in 1..(Len(s) - 1) |-> IF k < j THEN s[k] ELSE s[k + 1]]

ItemEq(a, b) ==
  a.name = b.name /\ a.value = b.value /\ a.consumable = b.consumable

ListRemove(s, item) ==
  LET j == CHOOSE k \in 1..Len(s) :
             ItemEq(s[k], item) /\ \A m \in 1..(k - 1) : ~ItemEq(s[m], item)
  IN RemoveAt(s, j)

\* variant: the last healing consumable of the inventory is used
auto_use_consumables_last(c) ==
  LET healing == {k \in 1..Len(c.inventory) :
                    c.inventory[k].consumable /\ c.inventory[k].heal_value > 0}
  IN IF 10 * c.health < 3 * c.max_health /\ healing # {}
       THEN LET k == CHOOSE j \in healing : \A m \in healing : j >= m
                used == use_consumable(c, c.inventory[k])
            IN [used EXCEPT !.inventory = RemoveAt(c.inventory, k)]
       ELSE c

auto_use_consumables(c) ==
  LET healing == {k \in 1..Len(c.inventory) :
                    c.inventory[k].consumable /\ c.inventory[k].heal_value > 0}
  IN IF 10 * c.health < 3 * c.max_health /\ healing # {}
       THEN LET k == CHOOSE j \in healing : \A m \in healing : j <= m
                used == use_consumable(c, c.inventory[k])
            IN [used EXCEPT !.inventory = ListRemove(c.inventory, c.inventory[k])]
       ELSE c

-----------------------------------------------------------------------------
(* CombatSystem.calculate_damage; u1, u2 in hundredths *)

\* variant: base damage floored at 0 instead of 1
calculate_damage_floor0(attacker, defender, u1, u2) ==
  LET base_damage == Max(0, attacker.attack * u1 - defender.defense * u2)
      m1 == IF "Empowered" \in DOMAIN attacker.status_effects THEN 12 ELSE 10
      m2 == IF "Cursed" \in DOMAIN attacker.status_effects THEN 5 ELSE 10
  IN (base_damage * m1 * m2) \div 10000

\* variant: Empowered multiplies by 0.2 instead of 1.2
calculate_damage_weak_empower(attacker, defender, u1, u2) ==
  LET base_damage == Max(100, attacker.attack * u1 - defender.defense * u2)
      m1 == IF "Empowered" \in DOMAIN attacker.status_effects THEN 2 ELSE 10
      m2 == IF "Cursed" \in DOMAIN attacker.status_effects THEN 5 ELSE 10
  IN (base_damage * m1 * m2) \div 10000

calculate_damage(attacker, defender, u1, u2) ==
  LET base_damage == Max(100, attacker.attack * u1 - defender.defense * u2)
      m1 == IF "Empowered" \in DOMAIN attacker.status_effects THEN 12 ELSE 10
      m2 == IF "Cursed" \in DOMAIN attacker.status_effects THEN 5 ELSE 10
  IN (base_damage * m1 * m2) \div 10000

-----------------------------------------------------------------------------
(* Rosters and loop positions of CombatSystem.party_vs_enemies *)

Roster(side) == IF side = "party" THEN player_party ELSE enemies

\* variant: a roster is alive while one of its actors has health left
AnyAlive_by_health(r) ==
  \E i \in DOMAIN r : r[i].health > 0

AnyAlive(r) ==
  \E i \in DOMAIN r : r[i].alive

\* variant: targets are not filtered by the alive flag
LivingAll(r) == DOMAIN r

Living(r) == {i \in DOMAIN r : r[i].alive}

SetActor(side, i, a) ==
  /\ player_party' = IF side = "party" THEN [player_party EXCEPT ![i] = a]
                                       ELSE player_party
  /\ enemies' = IF side = "enemies" THEN [enemies EXCEPT ![i] = a]
                                    ELSE enemies

\* position k of the concatenation player_party + enemies
UnionSide(k) == IF k <= Len(player_party) THEN "party" ELSE "enemies"
UnionPos(k) == IF k <= Len(player_party) THEN k ELSE k - Len(player_party)
UnionAt(k) == Roster(UnionSide(k))[UnionPos(k)]

Step(op, side, actor, target, damage) ==
  [op |-> op, side |-> side, actor |-> actor, target |-> target,
   damage |-> damage]

\* variant: the enemy pass follows the status tick
NextTick_enemy_pass ==
  IF idx < Len(player_party) + Len(enemies)
    THEN pc' = "tick" /\ idx' = idx + 1
    ELSE pc' = "enemy_pass" /\ idx' = 1

\* next element of "for char in player_party + enemies", then the player pass
NextTick ==
  IF idx < Len(player_party) + Len(enemies)
    THEN pc' = "tick" /\ idx' = idx + 1
    ELSE pc' = "player_pass" /\ idx' = 1

\* next element of "for char in player_party", then the enemy pass
NextPlayer ==
  IF idx < Len(player_party)
    THEN pc' = "player_pass" /\ idx' = idx + 1
    ELSE pc' = "enemy_pass" /\ idx' = 1

\* next element of "for enemy in enemies", then round_counter += 1
NextEnemy ==
  IF idx < Len(enemies)
    THEN pc' = "enemy_pass" /\ idx' = idx + 1 /\ UNCHANGED round_counter
    ELSE pc' = "guard" /\ idx' = 1 /\ round_counter' = round_counter + 1

-----------------------------------------------------------------------------
(* Status effects applied by an attack (elemental trigger, weapon proc);   *)
(* r1, r2 are the random.random() draws in thousandths                     *)

TimedEffect(turns) == [turns |-> turns, damage_per_turn |-> 0]

DotEffect(target) ==
  [turns |-> 5, damage_per_turn |-> Max(5, (5 * target.max_health) \div 100)]

chance(char) == 100 + char.attack

elemental_effect(char, target, r1) ==
  LET fx == target.status_effects IN
  IF char.element = "Fire" /\ r1 < chance(char) /\ "Burn" \notin DOMAIN fx
    THEN [target EXCEPT !.status_effects = AddEffect(fx, "Burn", DotEffect(target))]
  ELSE IF char.element = "Ice" /\ r1 < chance(char) /\ "Frozen" \notin DOMAIN fx
    THEN [target EXCEPT !.status_effects = AddEffect(fx, "Frozen", TimedEffect(5))]
  ELSE IF char.element = "Dark" /\ r1 < chance(char) /\ "Cursed" \notin DOMAIN fx
    THEN [target EXCEPT !.status_effects = AddEffect(fx, "Cursed", TimedEffect(5))]
  ELSE target

weapon_effect(char, target, r2) ==
  LET fx == target.status_effects
      weapon == char.weapon
  IN
  IF char.kind = "Player" /\ weapon.effect # "None"
       /\ r2 < weapon.effect_chance + chance(char)
    THEN IF weapon.effect = "Bleed" /\ "Bleed" \notin DOMAIN fx
           THEN [target EXCEPT !.status_effects = AddEffect(fx, "Bleed", DotEffect(target))]
         ELSE IF weapon.effect = "Stun" /\ "Stunned" \notin DOMAIN fx
           THEN [target EXCEPT !.status_effects = AddEffect(fx, "Stunned", TimedEffect(1))]
         ELSE IF weapon.effect = "Burn" /\ "Burn" \notin DOMAIN fx
           THEN [target EXCEPT !.status_effects = AddEffect(fx, "Burn", DotEffect(target))]
         ELSE IF weapon.effect = "Freeze" /\ "Frozen" \notin DOMAIN fx
           THEN [target EXCEPT !.status_effects = AddEffect(fx, "Frozen", TimedEffect(5))]
         ELSE IF weapon.effect = "Curse" /\ "Cursed" \notin DOMAIN fx
           THEN [target EXCEPT !.status_effects = AddEffect(fx, "Cursed", TimedEffect(5))]
         ELSE target
    ELSE target

apply_damage(target, damage) ==
  [target EXCEPT !.health = Max(0, target.health - damage)]

\* variant: a revive restores full health
death_check_full_heal(char) ==
  IF char.health <= 0
    THEN IF char.kind = "Player"
           THEN IF char.revives > 0
                  THEN [char EXCEPT !.revives = @ - 1,
                                    !.health = char.max_health]
                  ELSE [char EXCEPT !.alive = FALSE]
           ELSE [char EXCEPT !.alive = FALSE]
    ELSE char

\* death / revive check that follows process_status_effects in the tick loop
death_check(char) ==
  IF char.health <= 0
    THEN IF char.kind = "Player"
           THEN IF char.revives > 0
                  THEN [char EXCEPT !.revives = @ - 1,
                                    !.health = char.max_health \div 2]
                  ELSE [char EXCEPT !.alive = FALSE]
           ELSE [char EXCEPT !.alive = FALSE]
    ELSE char

-----------------------------------------------------------------------------
(* Inputs of party_vs_enemies that are checked *)

U1Draws == {80, 100, 120}      \* random.uniform(0.8, 1.2), hundredths
U2Draws == {70, 85, 100}       \* random.uniform(0.7, 1.0), hundredths
RollDraws == {0, 999}          \* random.random(), thousandths

\* both uniform draws of one calculate_damage call are the middle of their range
MidDraws(u1, u2) == 2 * u1 = 80 + 120 /\ 2 * u2 = 70 + 100

Potion == Consumable("Health Potion", 5)

\* element, weapon effect, weapon effect_chance (thousandths)
Loadouts ==
  {<<"Fire", "None", 0>>, <<"Ice", "None", 0>>, <<"Dark", "None", 0>>,
   <<"Water", "None", 0>>, <<"Water", "Bleed", 150>>, <<"Water", "Stun", 150>>,
   <<"Fire", "Burn", 200>>, <<"Water", "Freeze", 180>>,
   <<"Water", "Curse", 150>>, <<"Water", "Empower", 200>>}

\* health, max_health, alive
PlayerVitals == {<<8, 8, TRUE>>, <<2, 8, TRUE>>, <<1, 1, TRUE>>, <<0, 8, FALSE>>}

Player(v, l, revives, inventory, fx) ==
  [Character("Player", v[1], v[2], 5, 2, l[1], v[3]) EXCEPT
     !.weapon = [effect |-> l[2], effect_chance |-> l[3]],
     !.revives = revives, !.inventory = inventory, !.status_effects = fx]

AttackBoost == AddEffect(NoEffects, "Attack Boost", TimedEffect(2))

\* players that differ in element and weapon
FighterInputs ==
  {Player(<<8, 8, TRUE>>, l, 0, <<>>, NoEffects) : l \in Loadouts}

\* players that differ in health, revives, inventory and carried buff
SurvivorInputs ==
  {Player(v, <<"Water", "None", 0>>, r, inv, fx) :
     v \in PlayerVitals, r \in 0..MaxRevives,
     inv \in {<<>>, <<Potion>>}, fx \in {NoEffects, AttackBoost}}

AllyInputs ==
  {Character("NPC", 3, 3, 2, 2, "Ice", TRUE),
   Character("NPC", 0, 3, 2, 2, "Water", FALSE)}

Enemy8 == Character("NPC", 8, 8, 5, 2, "Water", TRUE)
Enemy3 == Character("NPC", 3, 3, 2, 2, "Water", TRUE)
EnemyDead == Character("NPC", 0, 3, 2, 2, "Water", FALSE)

\* a wounded player carrying a booster, then two healing consumables
Booster ==
  [Consumable("Attack Booster", 0) EXCEPT
     !.duration = 5, !.buff_effect = "Attack Boost", !.effect_percentage = 20]
Elixir == Consumable("Elixir of Life", 8)
Satchel == <<Booster, Elixir, Potion>>
PackedInputs ==
  {Player(<<2, 8, TRUE>>, <<"Water", "None", 0>>, r, Satchel, NoEffects) :
     r \in 0..MaxRevives}

\* a fresh Warrior (base_stats 120, 15, 10, 5; revives 3) against one enemy
\* of health 30, attack 10, defense 5
Warrior ==
  [Character("Player", 120, 120, 15, 10, "Water", TRUE) EXCEPT !.revives = 3]
Enemy30 == Character("NPC", 30, 30, 10, 5, "Water", TRUE)
Duel == <<(<<Warrior>>), (<<Enemy30>>)>>

\* pairs <<player_party, enemies>> passed to party_vs_enemies
Scenarios ==
  ({<<p>> : p \in FighterInputs} \X {<<Enemy8>>, <<Enemy3, Enemy8>>})
  \cup ({<<p>> : p \in SurvivorInputs} \X {<<Enemy8>>, <<Enemy3>>})
  \cup ({<<p, a>> : p \in SurvivorInputs, a \in AllyInputs}
          \X {<<Enemy8>>, <<EnemyDead, Enemy3>>})
  \cup ({<<>>} \X {<<>>, <<Enemy3>>, <<EnemyDead>>})
  \cup ({<<p>> : p \in SurvivorInputs} \X {<<>>, <<EnemyDead>>})
  \cup {Duel}
  \cup ({<<p>> : p \in PackedInputs} \X {<<Enemy8>>})

Snapshot == [party |-> player_party, enemies |-> enemies]

RECURSIVE HealthTotal(_)
HealthTotal(r) ==
  IF r = <<>> THEN 0 ELSE Max(0, Head(r).health) + HealthTotal(Tail(r))

\* rounds after which the model stops following the loop
RoundCap == 40

\* no stand-alone call made, no Player object, no relationship recorded
NoCall == [fn |-> "none", raised |-> FALSE]
NoHero == [char_class |-> "None"]
NoRelationships == [n \in {} |-> [level |-> 0, progress |-> 0, history |-> <<>>]]


\* MusicPlayer(): no thread, stop_event cleared, no track; the main thread is
\* outside play() and stop()
NoAudio ==
  /\ music_player = [thread |-> 0, stop_event |-> FALSE, track |-> "None"]
  /\ threads = <<>>
  /\ main = [pc |-> "idle", fn |-> "none", track |-> "None", loop |-> FALSE]

NoObjects ==
  /\ call = NoCall
  /\ hero = NoHero
  /\ relationships = NoRelationships
  /\ NoAudio

Init ==
  /\ \E s \in Scenarios : player_party = s[1] /\ enemies = s[2]
  /\ pc = "guard"
  /\ idx = 1
  /\ round_counter = 1
  /\ result = "None"
  /\ entry = [party |-> player_party, enemies |-> enemies]
  /\ round_start = [party |-> player_party, enemies |-> enemies]
  /\ last = Step("call", "none", 0, 0, 0)
  /\ zeroed = {}
  /\ calls = 0
  /\ midpoint = TRUE
  /\ NoObjects

-----------------------------------------------------------------------------
(* CombatSystem.party_vs_enemies, one action per step of the loop body *)

\* variant: the return value is computed from the enemy side
LoopGuard_enemy_result ==
  /\ pc = "guard"
  /\ IF AnyAlive(player_party) /\ AnyAlive(enemies)
       THEN /\ round_counter <= RoundCap
            /\ pc' = "tick"
            /\ idx' = 1
            /\ round_start' = Snapshot
            /\ zeroed' = {}
            /\ last' = Step("round", "none", 0, 0, 0)
            /\ UNCHANGED result
       ELSE /\ pc' = "done"
            /\ result' = IF ~AnyAlive(enemies) THEN "True" ELSE "False"
            /\ last' = Step("return", "none", 0, 0, 0)
            /\ UNCHANGED <<idx, round_start, zeroed>>
  /\ UNCHANGED <<midpoint, objects, player_party, enemies, round_counter,
                 entry, calls>>

\* variant: the loop runs while the enemy side has a living member
LoopGuard_enemies_only ==
  /\ pc = "guard"
  /\ IF AnyAlive(enemies)
       THEN /\ round_counter <= RoundCap
            /\ pc' = "tick"
            /\ idx' = 1
            /\ round_start' = Snapshot
            /\ zeroed' = {}
            /\ last' = Step("round", "none", 0, 0, 0)
            /\ UNCHANGED result
       ELSE /\ pc' = "done"
            /\ result' = IF AnyAlive(player_party) THEN "True" ELSE "False"
            /\ last' = Step("return", "none", 0, 0, 0)
            /\ UNCHANGED <<idx, round_start, zeroed>>
  /\ UNCHANGED <<midpoint, objects, player_party, enemies, round_counter,
                 entry, calls>>

\* while any(c.alive ...) and any(e.alive ...): ... return any(c.alive ...)
LoopGuard ==
  /\ pc = "guard"
  /\ IF AnyAlive(player_party) /\ AnyAlive(enemies)
       THEN /\ round_counter <= RoundCap
            /\ pc' = "tick"
            /\ idx' = 1
            /\ round_start' = Snapshot
            /\ zeroed' = {}
            /\ last' = Step("round", "none", 0, 0, 0)
            /\ UNCHANGED result
       ELSE /\ pc' = "done"
            /\ result' = IF AnyAlive(player_party) THEN "True" ELSE "False"
            /\ last' = Step("return", "none", 0, 0, 0)
            /\ UNCHANGED <<idx, round_start, zeroed>>
  /\ UNCHANGED <<midpoint, objects, player_party, enemies, round_counter,
                 entry, calls>>

\* for char in player_party + enemies: if char.alive: char.process_status_effects()
StatusTick ==
  /\ pc = "tick"
  /\ LET side == UnionSide(idx)
         pos == UnionPos(idx)
         char == UnionAt(idx)
     IN IF char.alive
          THEN /\ SetActor(side, pos, process_status_effects(char))
               /\ pc' = "death_check"
               /\ idx' = idx
               /\ last' = Step("tick", side, pos, 0, 0)
          ELSE /\ UNCHANGED <<player_party, enemies>>
               /\ NextTick
               /\ last' = Step("tick_skip", side, pos, 0, 0)
  /\ UNCHANGED <<midpoint, objects, round_counter, result, entry, round_start,
                 zeroed, calls>>

\* if char.health <= 0: revive the Player or mark the actor dead
DeathCheck ==
  /\ pc = "death_check"
  /\ LET side == UnionSide(idx)
         pos == UnionPos(idx)
         char == UnionAt(idx)
         checked == death_check(char)
     IN /\ SetActor(side, pos, checked)
        /\ last' = Step(IF char.health > 0 THEN "survive"
                        ELSE IF checked.alive THEN "revive" ELSE "death",
                        side, pos, 0, 0)
  /\ NextTick
  /\ UNCHANGED <<midpoint, objects, round_counter, result, entry, round_start,
                 zeroed, calls>>

\* for char in player_party: alive / Frozen / Stunned checks, auto_use_consumables
PlayerTurn ==
  /\ pc = "player_pass"
  /\ LET char == player_party[idx] IN
       IF ~char.alive
         THEN /\ NextPlayer
              /\ last' = Step("dead_skip", "party", idx, 0, 0)
              /\ UNCHANGED player_party
       ELSE IF DisablingEffects \cap DOMAIN char.status_effects # {}
         THEN /\ NextPlayer
              /\ last' = Step("forfeit", "party", idx, 0, 0)
              /\ UNCHANGED player_party
       ELSE /\ player_party' =
                 [player_party EXCEPT ![idx] =
                    IF char.kind = "Player" THEN auto_use_consumables(char)
                                            ELSE char]
            /\ pc' = "player_attack"
            /\ idx' = idx
            /\ last' = Step(IF player_party'[idx] # char THEN "auto_use"
                                                         ELSE "ready",
                            "party", idx, 0, 0)
  /\ UNCHANGED <<midpoint, objects, enemies, round_counter, result, entry,
                 round_start, zeroed, calls>>

\* living_enemies; break if empty; target = random.choice; damage; effects
PlayerAttack ==
  /\ pc = "player_attack"
  /\ LET char == player_party[idx] IN
       IF Living(enemies) = {}
         THEN /\ pc' = "enemy_pass"
              /\ idx' = 1
              /\ last' = Step("break", "party", idx, 0, 0)
              /\ UNCHANGED <<enemies, zeroed, midpoint>>
         ELSE \E t \in Living(enemies), u1 \in U1Draws, u2 \in U2Draws,
                 r1 \in RollDraws, r2 \in RollDraws :
                LET target == enemies[t]
                    damage == calculate_damage(char, target, u1, u2)
                    hit == apply_damage(target, damage)
                    after == weapon_effect(char,
                                           elemental_effect(char, hit, r1), r2)
                IN /\ enemies' = [enemies EXCEPT ![t] = after]
                   /\ zeroed' = IF target.health > 0 /\ hit.health = 0
                                  THEN zeroed \cup {<<"enemies", t>>}
                                  ELSE zeroed
                   /\ last' = Step("attack", "party", idx, t, damage)
                   /\ midpoint' = (midpoint /\ MidDraws(u1, u2))
                   /\ NextPlayer
  /\ UNCHANGED <<objects, player_party, round_counter, result, entry,
                 round_start, calls>>

\* for enemy in enemies: alive / Frozen / Stunned checks
EnemyTurn ==
  /\ pc = "enemy_pass"
  /\ LET enemy == enemies[idx] IN
       IF ~enemy.alive
         THEN /\ NextEnemy
              /\ last' = Step("dead_skip", "enemies", idx, 0, 0)
       ELSE IF DisablingEffects \cap DOMAIN enemy.status_effects # {}
         THEN /\ NextEnemy
              /\ last' = Step("forfeit", "enemies", idx, 0, 0)
       ELSE /\ pc' = "enemy_attack"
            /\ idx' = idx
            /\ last' = Step("ready", "enemies", idx, 0, 0)
            /\ UNCHANGED round_counter
  /\ UNCHANGED <<midpoint, objects, player_party, enemies, result, entry,
                 round_start, zeroed, calls>>

\* living_players; break if empty; target = random.choice; damage
EnemyAttack ==
  /\ pc = "enemy_attack"
  /\ LET enemy == enemies[idx] IN
       IF Living(player_party) = {}
         THEN /\ pc' = "guard"
              /\ idx' = 1
              /\ round_counter' = round_counter + 1
              /\ last' = Step("break", "enemies", idx, 0, 0)
              /\ UNCHANGED <<player_party, zeroed, midpoint>>
         ELSE \E t \in Living(player_party), u1 \in U1Draws, u2 \in U2Draws :
                LET target == player_party[t]
                    damage == calculate_damage(enemy, target, u1, u2)
                    hit == apply_damage(target, damage)
                IN /\ player_party' = [player_party EXCEPT ![t] = hit]
                   /\ zeroed' = IF target.health > 0 /\ hit.health = 0
                                  THEN zeroed \cup {<<"party", t>>}
                                  ELSE zeroed
                   /\ last' = Step("attack", "enemies", idx, t, damage)
                   /\ midpoint' = (midpoint /\ MidDraws(u1, u2))
                   /\ NextEnemy
  /\ UNCHANGED <<objects, enemies, result, entry, round_start, calls>>

Next ==
  \/ LoopGuard
  \/ StatusTick
  \/ DeathCheck
  \/ PlayerTurn
  \/ PlayerAttack
  \/ EnemyTurn
  \/ EnemyAttack

Spec == Init /\ [][Next]_vars

FairSpec == Spec /\ WF_vars(Next)

-----------------------------------------------------------------------------
(* Character.process_status_effects called on its own, on a character     *)
(* carrying any combination of effects with 1..MaxTurns turns left        *)

FxChoices(name, damage_per_turn) ==
  {NoEffects} \cup
  {AddEffect(NoEffects, name,
             [turns |-> n, damage_per_turn |-> damage_per_turn]) :
     n \in 1..MaxTurns}

Merge(f, g) ==
  [n \in (DOMAIN f) \cup (DOMAIN g) |-> IF n \in DOMAIN f THEN f[n] ELSE g[n]]

FxInputs ==
  {[Character("NPC", 20, 20, 5, 2, "Water", TRUE) EXCEPT
      !.status_effects = Merge(Merge(b, k), Merge(f, a))] :
     b \in FxChoices("Burn", 5), k \in FxChoices("Shocked", 2),
     f \in FxChoices("Frozen", 0), a \in FxChoices("Attack Boost", 0)}

MaxCalls == MaxTurns + 2

InitFx ==
  /\ player_party \in {<<c>> : c \in FxInputs}
  /\ enemies = <<>>
  /\ pc = "standalone"
  /\ idx = 1
  /\ round_counter = 1
  /\ result = "None"
  /\ entry = [party |-> player_party, enemies |-> enemies]
  /\ round_start = [party |-> player_party, enemies |-> enemies]
  /\ last = Step("call", "none", 0, 0, 0)
  /\ zeroed = {}
  /\ calls = 0
  /\ midpoint = TRUE
  /\ NoObjects

ProcessCall ==
  /\ pc = "standalone"
  /\ calls < MaxCalls
  /\ player_party' =
       [player_party EXCEPT ![1] = process_status_effects(player_party[1])]
  /\ calls' = calls + 1
  /\ last' = Step("tick", "party", 1, 0, 0)
  /\ UNCHANGED <<enemies, pc, idx, round_counter, result, entry, round_start,
                 zeroed, midpoint, objects>>

NextFx == ProcessCall

SpecFx == InitFx /\ [][NextFx]_vars

-----------------------------------------------------------------------------
(* Properties of the combat round engine *)

Actors == {<<"party", i>> : i \in DOMAIN player_party}
            \cup {<<"enemies", i>> : i \in DOMAIN enemies}

Actor(a) == Roster(a[1])[a[2]]

EntryActor(a) == entry[a[1]][a[2]]

StartActor(a) == round_start[a[1]][a[2]]

EntryHealthy ==
  \A a \in Actors : 0 < EntryActor(a).health
                      /\ EntryActor(a).health <= EntryActor(a).max_health

\* C1: with every actor entering at 0 < health <= max_health, every actor
\* keeps 0 <= health <= max_health after every attack, tick, potion and revive
\* (the state between process_status_effects and its death check is left out).
HealthWithinBounds ==
  (EntryHealthy /\ pc # "death_check")
    => \A a \in Actors : 0 <= Actor(a).health
                           /\ Actor(a).health <= Actor(a).max_health

\* C2: after every step that changes health, alive = (health > 0) for every
\* actor, except a Player at health <= 0 that still has a revive to consume.
AliveIffHealthy ==
  pc # "death_check"
    => \A a \in Actors :
         \/ Actor(a).alive = (Actor(a).health > 0)
         \/ /\ Actor(a).kind = "Player"
            /\ Actor(a).alive
            /\ Actor(a).revives > 0

RoundLimit == HealthTotal(entry.enemies) + 2

\* C3: party_vs_enemies returns, and the round counter never exceeds the
\* enemies' total health at entry plus two (one round per point of enemy
\* health, one closing round).
TerminatesWithinBound ==
  [](round_counter <= RoundLimit /\ RoundLimit < RoundCap) /\ <>(pc = "done")

TerminatesWitness ==
  /\ pc = "done"
  /\ round_counter >= 4
  /\ \E i \in DOMAIN player_party :
       player_party[i].revives < entry.party[i].revives

\* C4: an actor whose health an attack brought to 0 earlier in the round
\* makes no attack in the rest of that round.
NoActionAfterZeroed ==
  ~(last.op = "attack" /\ <<last.side, last.actor>> \in zeroed)

ActorNext(a) == IF a[1] = "party" THEN player_party'[a[2]] ELSE enemies'[a[2]]

Disabled(c) == DisablingEffects \cap DOMAIN c.status_effects

FullTurns(name) == IF name = "Stunned" THEN 1 ELSE 5

AttackerIsFree ==
  last.op = "attack" => Disabled(Actor(<<last.side, last.actor>>)) = {}

\* C5 as stated: a Frozen or Stunned actor deals no damage, and whenever it
\* forfeits, the status was carried at the start of the round and has one
\* turn less than it had then, also in the round in which it was applied.
ForfeitAlwaysDecremented ==
  /\ AttackerIsFree
  /\ last.op = "forfeit" =>
       LET a == <<last.side, last.actor>> IN
         \A s \in Disabled(Actor(a)) :
           /\ s \in DOMAIN StartActor(a).status_effects
           /\ Actor(a).status_effects[s].turns
                = StartActor(a).status_effects[s].turns - 1

\* C5 amended: a Frozen or Stunned actor deals no damage; when it forfeits on
\* a status it carried over the round's tick, the status has exactly one turn
\* less than at the start of the round; when the status was applied during
\* the round, it still has its full turn count (5, or 1 for Stunned).
ForfeitDecrementedUnlessFresh ==
  /\ AttackerIsFree
  /\ last.op = "forfeit" =>
       LET a == <<last.side, last.actor>> IN
         \A s \in Disabled(Actor(a)) :
           IF s \in DOMAIN StartActor(a).status_effects
                /\ StartActor(a).status_effects[s].turns > 1
             THEN Actor(a).status_effects[s].turns
                    = StartActor(a).status_effects[s].turns - 1
             ELSE Actor(a).status_effects[s].turns = FullTurns(s)

ForfeitWitness ==
  /\ last.op = "forfeit"
  /\ LET a == <<last.side, last.actor>> IN
       \E s \in Disabled(Actor(a)) :
         /\ s \in DOMAIN StartActor(a).status_effects
         /\ Actor(a).status_effects[s].turns
              = StartActor(a).status_effects[s].turns - 1

TimesApplied(n) == Min(calls, n)

\* C6: an effect stored with turns = n is present after k calls exactly when
\* k < n, with n - k turns left; a damaging effect has subtracted its
\* damage_per_turn min(k, n) times; no call adds an effect.
EffectLifetime ==
  LET c0 == entry.party[1]
      c == player_party[1]
      fx0 == c0.status_effects
      total == [s \in DOMAIN fx0 |->
                  IF s \in DamagingEffects
                    THEN fx0[s].damage_per_turn * TimesApplied(fx0[s].turns)
                    ELSE 0]
  IN /\ DOMAIN c.status_effects \subseteq DOMAIN fx0
     /\ \A s \in DOMAIN fx0 :
          /\ (s \in DOMAIN c.status_effects) = (calls < fx0[s].turns)
          /\ s \in DOMAIN c.status_effects
               => c.status_effects[s].turns = fx0[s].turns - calls
     /\ c.health = c0.health - SumOver(total, DOMAIN fx0)

EffectLifetimeWitness ==
  /\ calls = 2
  /\ "Burn" \in DOMAIN entry.party[1].status_effects
  /\ entry.party[1].status_effects["Burn"].turns = 1
  /\ "Shocked" \in DOMAIN player_party[1].status_effects
  /\ player_party[1].health = 11

\* C7: a dead actor stays dead and unchanged; no dead actor attacks, is
\* chosen as a target, or has its status effects ticked.
DeathIsPermanent ==
  [][/\ \A a \in Actors : ~Actor(a).alive => ActorNext(a) = Actor(a)
     /\ last'.op = "attack" =>
          /\ Roster(last'.side)[last'.actor].alive
          /\ Roster(IF last'.side = "party" THEN "enemies"
                                            ELSE "party")[last'.target].alive
     /\ last'.op = "tick" => Roster(last'.side)[last'.actor].alive]_vars

DeathWitness ==
  /\ last.op = "attack"
  /\ round_counter >= 2
  /\ \E a \in Actors : ~Actor(a).alive /\ EntryActor(a).alive

\* C8: the death check revives a Player at health <= 0 that has revives
\* (revives - 1, health = max_health \div 2, still alive), marks it dead at 0
\* revives, marks any other actor at health <= 0 dead without touching its
\* health; the revive counter never grows and never goes below 0.
ReviveRule ==
  [][/\ pc = "death_check" =>
          LET a == <<UnionSide(idx), UnionPos(idx)>>
              c == Actor(a)
              d == ActorNext(a)
          IN /\ (c.kind = "Player" /\ c.health <= 0 /\ c.revives > 0)
                  => /\ d.revives = c.revives - 1
                     /\ d.health = c.max_health \div 2
                     /\ d.alive
             /\ (c.kind = "Player" /\ c.health <= 0 /\ c.revives = 0)
                  => ~d.alive /\ d.revives = 0
             /\ (c.kind # "Player" /\ c.health <= 0)
                  => ~d.alive /\ d.health = c.health
     /\ \A a \in Actors : /\ ActorNext(a).revives <= Actor(a).revives
                          /\ ActorNext(a).revives >= 0]_vars

ReviveWitness ==
  /\ last.op = "revive"
  /\ LET c == Actor(<<last.side, last.actor>>) IN
       /\ c.kind = "Player"
       /\ c.alive
       /\ c.health = c.max_health \div 2
       /\ c.revives < EntryActor(<<last.side, last.actor>>).revives

\* C9: party_vs_enemies returns only with a side that has no living member,
\* returns True exactly when the player side has one; on True every enemy
\* has health <= 0, on False every player-side member has health <= 0.
ReturnValue ==
  pc = "done" =>
    /\ ~AnyAlive(player_party) \/ ~AnyAlive(enemies)
    /\ (result = "True") = AnyAlive(player_party)
    /\ result \in {"True", "False"}
    /\ result = "True" => \A i \in DOMAIN enemies : enemies[i].health <= 0
    /\ result = "False"
         => \A i \in DOMAIN player_party : player_party[i].health <= 0

ReturnWitness ==
  /\ pc = "done"
  /\ result = "True"
  /\ round_counter >= 3
  /\ AnyAlive(entry.enemies)

EmptySideAtEntry == ~AnyAlive(entry.party) \/ ~AnyAlive(entry.enemies)

\* C10: called with a side that has no living member, party_vs_enemies runs
\* no round, changes no actor, and returns False when the player side has no
\* living member and True otherwise.
ImmediateReturn ==
  EmptySideAtEntry =>
    /\ pc \in {"guard", "done"}
    /\ round_counter = 1
    /\ player_party = entry.party
    /\ enemies = entry.enemies
    /\ pc = "done"
         => result = IF AnyAlive(entry.party) THEN "True" ELSE "False"

ImmediateReturnWitness ==
  /\ pc = "done"
  /\ entry.party # <<>>
  /\ ~AnyAlive(entry.party)
  /\ AnyAlive(entry.enemies)
  /\ result = "False"

-----------------------------------------------------------------------------
(* Stand-alone calls: the combat loop is not running *)

combat == <<player_party, enemies, pc, idx, round_counter, result, entry,
            round_start, last, zeroed, calls, midpoint>>

NoCombat ==
  /\ player_party = <<>>
  /\ enemies = <<>>
  /\ pc = "standalone"
  /\ idx = 1
  /\ round_counter = 1
  /\ result = "None"
  /\ entry = [party |-> <<>>, enemies |-> <<>>]
  /\ round_start = [party |-> <<>>, enemies |-> <<>>]
  /\ last = Step("call", "none", 0, 0, 0)
  /\ zeroed = {}
  /\ calls = 0
  /\ midpoint = TRUE

-----------------------------------------------------------------------------
(* CombatSystem.calculate_damage called on its own: attacker (first of     *)
(* player_party) and defender (first of enemies) with every attack and     *)
(* defense in 0..MaxStat and every Empowered / Cursed combination          *)

AttackerEffects ==
  {NoEffects,
   AddEffect(NoEffects, "Empowered", TimedEffect(MaxTurns)),
   AddEffect(NoEffects, "Cursed", TimedEffect(MaxTurns)),
   AddEffect(AddEffect(NoEffects, "Empowered", TimedEffect(MaxTurns)),
             "Cursed", TimedEffect(MaxTurns))}

InitDmg ==
  /\ \E attack \in 0..MaxStat, fx \in AttackerEffects :
       player_party = <<[Character("NPC", 1, 1, attack, 0, "Water", TRUE)
                           EXCEPT !.status_effects = fx]>>
  /\ \E defense \in 0..MaxStat :
       enemies = <<Character("NPC", 1, 1, 0, defense, "Water", TRUE)>>
  /\ pc = "standalone"
  /\ idx = 1
  /\ round_counter = 1
  /\ result = "None"
  /\ entry = [party |-> player_party, enemies |-> enemies]
  /\ round_start = [party |-> player_party, enemies |-> enemies]
  /\ last = Step("call", "none", 0, 0, 0)
  /\ zeroed = {}
  /\ calls = 0
  /\ midpoint = TRUE
  /\ NoObjects

\* damage = CombatSystem.calculate_damage(attacker, defender)
CalculateDamage ==
  /\ pc = "standalone"
  /\ \E u1 \in U1Draws, u2 \in U2Draws :
       call' = [fn |-> "calculate_damage", raised |-> FALSE,
                attacker |-> player_party[1], defender |-> enemies[1],
                u1 |-> u1, u2 |-> u2,
                ret |-> calculate_damage(player_party[1], enemies[1], u1, u2)]
  /\ UNCHANGED <<combat, hero, relationships, audio>>

NextDmg == CalculateDamage

SpecDmg == InitDmg /\ [][NextDmg]_vars

\* C11: calculate_damage returns the truncation of max(1, attack*u1 -
\* defense*u2) times the Empowered (1.2) and Cursed (0.5) multipliers: a
\* non-negative integer that is at least 1 whenever the attacker is not Cursed
DamageContract ==
  call.fn = "calculate_damage" =>
    LET raw == call.attacker.attack * call.u1 - call.defender.defense * call.u2
        floored == IF raw > 100 THEN raw ELSE 100
        empowered == "Empowered" \in DOMAIN call.attacker.status_effects
        cursed == "Cursed" \in DOMAIN call.attacker.status_effects
        m == (IF empowered THEN 12 ELSE 10) * (IF cursed THEN 5 ELSE 10)
    IN /\ call.ret \in Nat
       /\ ~cursed => call.ret >= 1
       /\ call.ret * 10000 <= floored * m
       /\ floored * m < (call.ret + 1) * 10000

\* an Empowered, not Cursed attacker whose raw damage is below the floor deals 1
DamageWitness ==
  /\ call.fn = "calculate_damage"
  /\ call.attacker.attack * call.u1 < call.defender.defense * call.u2
  /\ DOMAIN call.attacker.status_effects = {"Empowered"}
  /\ call.ret = 1

-----------------------------------------------------------------------------
(* The duel of the fresh Warrior against Enemy30 with every damage draw at  *)
(* the middle of its range (1.0 and 0.85); the Warrior's element is Water   *)
(* and it holds no weapon, so no status effect can trigger                  *)

\* C12: in the duel with midpoint draws party_vs_enemies returns True, no
\* fourth round is begun, the player's health never reaches 0, and the enemy
\* deals no damage once its own health is 0
MidpointDuel ==
  (entry = [party |-> Duel[1], enemies |-> Duel[2]] /\ midpoint) =>
    /\ pc = "done" => result = "True"
    /\ pc \notin {"guard", "done"} => round_counter <= 3
    /\ player_party[1].health > 0
    /\ ~(last.op = "attack" /\ last.side = "enemies"
          /\ enemies[last.actor].health = 0)

-----------------------------------------------------------------------------
(* ItemGenerator.generate_item of both files, called once on a tier or     *)
(* level; an outcome is either a returned item or a raised exception.      *)
(* The item's name (three random.choice draws) is not modelled.            *)

\* random.randint(a, b): the integers a..b; ValueError when the range is empty
randint(a, b) == a..b

Raised(error) == [raised |-> TRUE, error |-> error, ret |-> "None"]
Returned(ret) == [raised |-> FALSE, error |-> "None", ret |-> ret]

\* Item(...) followed by __post_init__ with v the random.randint(10, 50) draw
Item(attack, defense, magic, v) ==
  [name |-> "Item", attack |-> attack, defense |-> defense, magic |-> magic,
   value |-> (attack + defense + magic) * 10 + v, consumable |-> FALSE]

\* variant: the three stats are drawn from 0..2*tier
generate_item_from_zero(tier) ==
  IF randint(0, tier * 2) = {}
    THEN {Raised("ValueError")}
    ELSE {Returned(Item(a, d, m, v)) :
            a \in randint(0, tier * 2), d \in randint(0, tier * 2),
            m \in randint(0, tier * 2), v \in randint(10, 50)}

\* ElementalRealms: the outcomes of ItemGenerator.generate_item(tier)
generate_item(tier) ==
  IF randint(1, tier * 2) = {}
    THEN {Raised("ValueError")}
    ELSE {Returned(Item(a, d, m, v)) :
            a \in randint(1, tier * 2), d \in randint(1, tier * 2),
            m \in randint(1, tier * 2), v \in randint(10, 50)}

\* 2dlilgame: ItemGenerator.generate_item(level) evaluates the name Item, which
\* the file never defines, before any of its arguments: NameError for every
\* level (the draws random.randint(1, level//2) and (1, level//3) are not
\* reached)
generate_item_2d(level) == {Raised("NameError")}

Tiers == (0 - MaxTier)..MaxTier

InitItem == NoCombat /\ NoObjects

GenerateItem ==
  /\ pc = "standalone"
  /\ call.fn = "none"
  /\ \E tier \in Tiers : \E out \in generate_item(tier) :
       call' = [fn |-> "generate_item", raised |-> out.raised,
                error |-> out.error, tier |-> tier, ret |-> out.ret]
  /\ UNCHANGED <<combat, hero, relationships, audio>>

GenerateItem2d ==
  /\ pc = "standalone"
  /\ call.fn = "none"
  /\ \E level \in Tiers : \E out \in generate_item_2d(level) :
       call' = [fn |-> "generate_item_2d", raised |-> out.raised,
                error |-> out.error, tier |-> level, ret |-> out.ret]
  /\ UNCHANGED <<combat, hero, relationships, audio>>

NextItem == GenerateItem \/ GenerateItem2d

SpecItem == InitItem /\ [][NextItem]_vars

\* C13: for tier >= 1 generate_item (ElementalRealms) returns an item whose
\* attack, defense and magic lie in 1..2*tier and whose value is ten times
\* their sum plus a draw in 10..50, so at least 10; for tier 5 the stats lie
\* in 1..10
ItemStatsInRange ==
  (call.fn = "generate_item" /\ call.tier >= 1) =>
    /\ ~call.raised
    /\ LET item == call.ret
           stats == {item.attack, item.defense, item.magic}
           sum == item.attack + item.defense + item.magic
       IN /\ \A x \in stats : 1 <= x /\ x <= 2 * call.tier
          /\ item.value - 10 * sum >= 10
          /\ item.value - 10 * sum <= 50
          /\ item.value >= 10
          /\ call.tier = 5 => \A x \in stats : x \in 1..10

\* a tier-5 item with a stat at each end of the range
ItemWitness ==
  /\ call.fn = "generate_item"
  /\ call.tier = 5
  /\ ~call.raised
  /\ call.ret.attack = 10
  /\ call.ret.defense = 1

\* C16: generate_item never raises, whatever the tier or level, and the
\* returned item's stats lie in 1..max(1, bound), bound being 2*tier
\* (ElementalRealms) or level \div 2 (2dlilgame)
ItemNeverRaises ==
  call.fn \in {"generate_item", "generate_item_2d"} =>
    /\ ~call.raised
    /\ LET bound == IF call.fn = "generate_item" THEN 2 * call.tier
                                                 ELSE call.tier \div 2
       IN \A x \in {call.ret.attack, call.ret.defense, call.ret.magic} :
            1 <= x /\ x <= Max(1, bound)

-----------------------------------------------------------------------------
(* Character.update_relationship (the same code in both files), called up  *)
(* to MaxUpdates times on one observer.  A history entry is the pair       *)
(* <<reason, change>> that the code formats into one string.               *)

\* the values of RelationshipLevel: HATED, DISLIKED, NEUTRAL, LIKED, LOVED
RelationshipLevels == {-2, -1, 0, 1, 2}

\* Relationship(): NEUTRAL, progress 0, empty history
Relationship == [level |-> 0, progress |-> 0, history |-> <<>>]

SetRelationship(rels, name, rel) ==
  [n \in (DOMAIN rels) \cup {name} |-> IF n = name THEN rel ELSE rels[n]]

\* variant: the level changes only when progress passes 100 or -100
update_relationship_strict(rels, other, change, reason) ==
  LET known == IF other.name \in DOMAIN rels THEN rels[other.name]
                                             ELSE Relationship
      rel == [known EXCEPT !.progress = @ + change,
                           !.history = Append(@, <<reason, change>>)]
      step == IF rel.progress > 100 THEN 1
              ELSE IF rel.progress < -100 THEN -1 ELSE 0
  IN IF step = 0 THEN Returned(SetRelationship(rels, other.name, rel))
     ELSE IF rel.level + step \notin RelationshipLevels
       THEN [Raised("ValueError") EXCEPT
               !.ret = SetRelationship(rels, other.name, rel)]
     ELSE Returned(SetRelationship(rels, other.name,
                     [rel EXCEPT !.level = @ + step, !.progress = 0]))

\* the observer's relationships after the call (ret), and whether
\* RelationshipLevel(value) raised ValueError after progress and history
\* had been updated
update_relationship(rels, other, change, reason) ==
  LET known == IF other.name \in DOMAIN rels THEN rels[other.name]
                                             ELSE Relationship
      rel == [known EXCEPT !.progress = @ + change,
                           !.history = Append(@, <<reason, change>>)]
      step == IF rel.progress >= 100 THEN 1
              ELSE IF rel.progress <= -100 THEN -1 ELSE 0
  IN IF step = 0 THEN Returned(SetRelationship(rels, other.name, rel))
     ELSE IF rel.level + step \notin RelationshipLevels
       THEN [Raised("ValueError") EXCEPT
               !.ret = SetRelationship(rels, other.name, rel)]
     ELSE Returned(SetRelationship(rels, other.name,
                     [rel EXCEPT !.level = @ + step, !.progress = 0]))

\* the characters passed as other: two of them carry the same name
Others ==
  {[id |-> 1, name |-> "Aria"], [id |-> 2, name |-> "Borin"],
   [id |-> 3, name |-> "Aria"]}

Changes == {-100, -50, 50, 100}

\* calls made so far: each call appends one history entry
Updates ==
  SumOver([n \in DOMAIN relationships |-> Len(relationships[n].history)],
          DOMAIN relationships)

InitRel == NoCombat /\ NoObjects

\* self.update_relationship(other, change, reason); an exception ends the run
UpdateRelationship ==
  /\ pc = "standalone"
  /\ ~call.raised
  /\ Updates < MaxUpdates
  /\ \E other \in Others, change \in Changes :
       LET out == update_relationship(relationships, other, change, "quest")
       IN /\ relationships' = out.ret
          /\ call' = [fn |-> "update_relationship", raised |-> out.raised,
                      error |-> out.error, other |-> other,
                      change |-> change]
  /\ UNCHANGED <<combat, hero, audio>>

NextRel == UpdateRelationship

SpecRel == InitRel /\ [][NextRel]_vars

\* C14: a call on a record whose level is not HATED or LOVED: old progress
\* plus change equal to 100 gives progress 0 and the next level up, equal to
\* -100 gives progress 0 and the next level down, strictly between leaves
\* the level and stores the sum
RolloverAtBoundary ==
  [][relationships' # relationships =>
       LET name == call'.other.name
           old == IF name \in DOMAIN relationships THEN relationships[name]
                                                   ELSE Relationship
           new == relationships'[name]
           sum == old.progress + call'.change
       IN old.level \in RelationshipLevels \ {-2, 2} =>
            /\ sum = 100 => new.progress = 0 /\ new.level = old.level + 1
            /\ sum = -100 => new.progress = 0 /\ new.level = old.level - 1
            /\ (-100 < sum /\ sum < 100) =>
                 new.level = old.level /\ new.progress = sum]_vars

\* two changes of 50 brought the progress to exactly 100: LIKED, progress 0
RolloverWitness ==
  /\ call.fn = "update_relationship"
  /\ ~call.raised
  /\ LET rel == relationships[call.other.name]
     IN /\ rel.history = <<(<<"quest", 50>>), (<<"quest", 50>>)>>
        /\ rel.level = 1
        /\ rel.progress = 0

\* C15: no update_relationship call raises, and every record keeps its
\* level within HATED..LOVED and its progress within [-100, 100)
RelationshipBounded ==
  /\ call.fn = "update_relationship" => ~call.raised
  /\ \A n \in DOMAIN relationships :
       /\ relationships[n].level \in RelationshipLevels
       /\ -100 <= relationships[n].progress
       /\ relationships[n].progress < 100

-----------------------------------------------------------------------------
(* get_mob_properties and create_enemy, called once; the five variation    *)
(* draws random.uniform(0.9, 1.1) are carried in hundredths                *)

mob_properties ==
  ("Slime" :> [elements |-> <<"Water", "Poison", "Nature">>,
        alignments |-> <<"True Neutral", "Chaotic Neutral">>])
  @@ ("Goblin" :> [elements |-> <<"Earth", "Fire", "Dark">>,
        alignments |-> <<"Chaotic Neutral", "Chaotic Evil">>])
  @@ ("Shadow Beast" :> [elements |-> <<"Dark">>,
        alignments |-> <<"Chaotic Evil", "Neutral Evil">>])
  @@ ("Rat" :> [elements |-> <<"Earth", "Poison">>,
        alignments |-> <<"True Neutral", "Chaotic Neutral">>])
  @@ ("Spider" :> [elements |-> <<"Poison", "Dark">>,
        alignments |-> <<"Neutral Evil", "Chaotic Neutral">>])
  @@ ("Skeleton" :> [elements |-> <<"Dark">>,
        alignments |-> <<"Lawful Evil", "Neutral Evil">>])
  @@ ("Dark Mage" :> [elements |-> <<"Dark", "Fire", "Ice">>,
        alignments |-> <<"Neutral Evil", "Chaotic Evil">>])
  @@ ("Stone Golem" :> [elements |-> <<"Earth">>,
        alignments |-> <<"Lawful Neutral", "True Neutral">>])
  @@ ("Harpy" :> [elements |-> <<"Air", "Lightning">>,
        alignments |-> <<"Chaotic Neutral", "Chaotic Evil">>])
  @@ ("Werewolf" :> [elements |-> <<"Nature", "Dark">>,
        alignments |-> <<"Chaotic Neutral", "Chaotic Evil">>])
  @@ ("Dragon Wyrmling" :> [elements |-> <<"Fire", "Ice", "Lightning">>,
        alignments |-> <<"Lawful Evil", "Neutral Evil">>])
  @@ ("Lich" :> [elements |-> <<"Dark", "Ice">>,
        alignments |-> <<"Lawful Evil", "Neutral Evil">>])
  @@ ("Ancient Guardian" :> [elements |-> <<"Light", "Earth">>,
        alignments |-> <<"Lawful Neutral", "Lawful Evil">>])

default_properties ==
  [elements |-> <<"Dark">>, alignments |-> <<"Neutral Evil">>]

\* variant: an unknown name falls back to the first archetype of the table
get_mob_properties_first(mob_name) ==
  IF mob_name \in DOMAIN mob_properties THEN mob_properties[mob_name]
                                        ELSE mob_properties["Slime"]

\* mob_properties.get(mob_name, default_properties)
get_mob_properties(mob_name) ==
  IF mob_name \in DOMAIN mob_properties THEN mob_properties[mob_name]
                                        ELSE default_properties

\* random.choice(list)
choice(list) == {list[i] : i \in DOMAIN list}

VariationDraws == {90, 100, 110}

\* the enemies create_enemy can return; int(current_value * variation) is
\* applied to health, max_health, attack, defense, magic_power in turn
create_enemy(mob_name, enemy_health, enemy_attack, enemy_defense, enemy_magic) ==
  LET properties == get_mob_properties(mob_name) IN
  {[name |-> mob_name, kind |-> "NPC", element |-> element,
    alignment |-> alignment,
    health |-> (enemy_health * v[1]) \div 100,
    max_health |-> (enemy_health * v[2]) \div 100,
    attack |-> (enemy_attack * v[3]) \div 100,
    defense |-> (enemy_defense * v[4]) \div 100,
    magic_power |-> (enemy_magic * v[5]) \div 100,
    alive |-> TRUE, status_effects |-> NoEffects] :
     element \in choice(properties.elements),
     alignment \in choice(properties.alignments),
     v \in [1..5 -> VariationDraws]}

\* the names passed to create_enemy: the archetypes, the boss and a stranger
MobNames == (DOMAIN mob_properties) \cup {"Demon Lord", "Bandit"}

\* enemy_health, enemy_attack, enemy_defense, enemy_magic
EnemyStats == {<<200, 20, 10, 15>>, <<30, 10, 5, 3>>, <<1, 1, 1, 1>>}

InitEnemy == NoCombat /\ NoObjects

CreateEnemy ==
  /\ pc = "standalone"
  /\ call.fn = "none"
  /\ \E mob_name \in MobNames, st \in EnemyStats :
       \E enemy \in create_enemy(mob_name, st[1], st[2], st[3], st[4]) :
         call' = [fn |-> "create_enemy", raised |-> FALSE,
                  mob_name |-> mob_name, stats |-> st, ret |-> enemy]
  /\ UNCHANGED <<combat, hero, relationships, audio>>

NextEnemyCall == CreateEnemy

SpecEnemy == InitEnemy /\ [][NextEnemyCall]_vars

\* C17: create_enemy returns for every name; for an archetype of the table
\* the enemy's element and alignment are members of that archetype's lists,
\* for any other name they are Dark and Neutral Evil
ArchetypeOrDefault ==
  call.fn = "create_enemy" =>
    /\ ~call.raised
    /\ IF call.mob_name \in DOMAIN mob_properties
         THEN /\ call.ret.element
                   \in choice(mob_properties[call.mob_name].elements)
              /\ call.ret.alignment
                   \in choice(mob_properties[call.mob_name].alignments)
         ELSE /\ call.ret.element = "Dark"
              /\ call.ret.alignment = "Neutral Evil"

\* the boss, whose name is not in the table, was created
ArchetypeWitness ==
  /\ call.fn = "create_enemy"
  /\ call.mob_name = "Demon Lord"
  /\ call.ret.element = "Dark"
  /\ call.ret.alignment = "Neutral Evil"

-----------------------------------------------------------------------------
(* A Player object outside combat: equip_item, check_level_up after an exp *)
(* gain, purchases, use_consumable, and the status tick of a combat round  *)

Slots == {"weapon", "armor", "shield", "accessory"}

\* None in an equipment slot
NoItem ==
  [name |-> "None", attack |-> 0, defense |-> 0, magic |-> 0, value |-> 0,
   consumable |-> FALSE]

\* health, attack, defense, magic of Player.__init__
base_stats ==
  [c \in {"Warrior", "Mage", "Rogue"} |->
     IF c = "Warrior" THEN <<120, 15, 10, 5>>
     ELSE IF c = "Mage" THEN <<80, 5, 5, 20>> ELSE <<90, 10, 8, 12>>]

\* Player.RANK_THRESHOLDS, indexed by the value of QuestRank (F = 1 .. SSS = 9)
RANK_THRESHOLDS == <<100, 250, 500, 1000, 2000, 4000, 8000, 16000, 32000>>

\* Player(name, char_class, element, alignment)
NewPlayer(char_class) ==
  LET b == IF char_class \in DOMAIN base_stats THEN base_stats[char_class]
                                               ELSE base_stats["Warrior"]
  IN [kind |-> "Player", char_class |-> char_class,
      health |-> b[1], max_health |-> b[1], attack |-> b[2],
      defense |-> b[3], magic_power |-> b[4],
      exp |-> 0, level |-> 1, alive |-> TRUE,
      inventory |-> <<>>, status_effects |-> NoEffects,
      base_health |-> b[1], base_attack |-> b[2], base_defense |-> b[3],
      base_magic |-> b[4],
      equipment |-> [s \in Slots |-> NoItem],
      current_rank |-> 1, rank_progress |-> 0,
      rank_threshold |-> RANK_THRESHOLDS[1], revives |-> 3]

Equipped(p) == {s \in DOMAIN p.equipment : p.equipment[s] # NoItem}

recalc_stats(p) ==
  [p EXCEPT
     !.attack = p.base_attack
                  + SumOver([s \in Equipped(p) |-> p.equipment[s].attack],
                            Equipped(p)),
     !.defense = p.base_defense
                   + SumOver([s \in Equipped(p) |-> p.equipment[s].defense],
                             Equipped(p)),
     !.magic_power = p.base_magic
                       + SumOver([s \in Equipped(p) |-> p.equipment[s].magic],
                                 Equipped(p))]

\* health, attack, defense, magic added per level
LevelGains(char_class) ==
  IF char_class = "Warrior" THEN <<15, 3, 2, 1>>
  ELSE IF char_class = "Mage" THEN <<8, 1, 1, 4>>
  ELSE IF char_class = "Rogue" THEN <<10, 2, 2, 2>>
  ELSE <<0, 0, 0, 0>>

\* variant: "if" in place of "while", at most one level per call
check_level_up_once(p) ==
  LET required_exp == 100 + (p.level - 1) * 20
      gain == LevelGains(p.char_class)
  IN IF p.exp >= required_exp
       THEN [p EXCEPT !.exp = @ - required_exp,
                      !.level = @ + 1,
                      !.base_health = @ + gain[1],
                      !.base_attack = @ + gain[2],
                      !.base_defense = @ + gain[3],
                      !.base_magic = @ + gain[4],
                      !.max_health = p.base_health + gain[1],
                      !.health = p.base_health + gain[1]]
       ELSE p

RECURSIVE check_level_up(_)
check_level_up(p) ==
  LET required_exp == 100 + (p.level - 1) * 20
      gain == LevelGains(p.char_class)
  IN IF p.exp >= required_exp
       THEN check_level_up(
              [p EXCEPT !.exp = @ - required_exp,
                        !.level = @ + 1,
                        !.base_health = @ + gain[1],
                        !.base_attack = @ + gain[2],
                        !.base_defense = @ + gain[3],
                        !.base_magic = @ + gain[4],
                        !.max_health = p.base_health + gain[1],
                        !.health = p.base_health + gain[1]])
       ELSE p

equip_item(p, item, slot) ==
  LET old_item == p.equipment[slot]
      kept == IF old_item # NoItem THEN Append(p.inventory, old_item)
                                   ELSE p.inventory
  IN recalc_stats([p EXCEPT !.inventory = kept, !.equipment[slot] = item])

\* Shop entries: Item("Iron Sword", attack=5), Item("Mystic Robe", defense=3,
\* magic=4), each with the draw 10 of __post_init__
Gear ==
  {[Item(5, 0, 0, 10) EXCEPT !.name = "Iron Sword"],
   [Item(0, 3, 4, 10) EXCEPT !.name = "Mystic Robe"]}

\* Shop entries: Consumable("Health Potion", heal_value=50) and
\* Consumable("Attack Booster", duration=5, effect="Attack Boost",
\* effect_percentage=20)
Stock ==
  {Consumable("Health Potion", 50),
   [Consumable("Attack Booster", 0) EXCEPT
      !.duration = 5, !.buff_effect = "Attack Boost",
      !.effect_percentage = 20]}

ExpGains == {50, 100, 250}

InitHero ==
  /\ NoCombat
  /\ call = NoCall
  /\ relationships = NoRelationships
  /\ NoAudio
  /\ hero \in {NewPlayer(c) : c \in DOMAIN base_stats}

\* one method call on the Player object, arg being its argument
HeroCall(fn, arg, p) ==
  /\ pc = "standalone"
  /\ calls < MaxHeroCalls
  /\ calls' = calls + 1
  /\ hero' = p
  /\ call' = [fn |-> fn, raised |-> FALSE, arg |-> arg]
  /\ UNCHANGED <<player_party, enemies, pc, idx, round_counter, result, entry,
                 round_start, last, zeroed, midpoint, relationships, audio>>

\* self.player.equip_item(item, slot)
EquipItem ==
  \E item \in Gear, slot \in {"weapon", "armor"} :
    HeroCall("equip_item", item, equip_item(hero, item, slot))

\* self.player.exp += reward; self.player.check_level_up()
CheckLevelUp ==
  \E gained \in ExpGains :
    HeroCall("check_level_up", gained,
             check_level_up([hero EXCEPT !.exp = @ + gained]))

\* player.inventory.append(item) of a purchase
Purchase ==
  \E item \in Stock :
    HeroCall("append", item, [hero EXCEPT !.inventory = Append(@, item)])

\* self.player.use_consumable(item); self.player.inventory.pop(index)
UseConsumable ==
  \E index \in 1..Len(hero.inventory) :
    /\ hero.inventory[index].consumable
    /\ HeroCall("use_consumable", hero.inventory[index],
                [use_consumable(hero, hero.inventory[index]) EXCEPT
                   !.inventory = RemoveAt(hero.inventory, index)])

\* char.process_status_effects() of a combat round
TickHero ==
  /\ hero.status_effects # NoEffects
  /\ HeroCall("process_status_effects", NoItem, process_status_effects(hero))

NextHero ==
  \/ EquipItem
  \/ CheckLevelUp
  \/ Purchase
  \/ UseConsumable
  \/ TickHero

SpecHero == InitHero /\ [][NextHero]_vars

\* C18: after any sequence of equip_item and check_level_up calls on a fresh
\* Player, attack, defense and magic_power equal their base value plus the
\* bonuses of the equipped items
StatsAreDerived ==
  hero # NoHero => hero = recalc_stats(hero)

\* C19: an operation that applies a named status effect leaves an entry of
\* that name the actor already carries as it is: the buff of use_consumable
\* on the Player, the elemental trigger and the weapon proc on the target of
\* a player-side attack
AppliedEffectKept ==
  [][/\ (calls' # calls /\ call'.fn = "use_consumable"
          /\ call'.arg.heal_value = 0
          /\ call'.arg.buff_effect \in DOMAIN hero.status_effects)
         => hero'.status_effects[call'.arg.buff_effect]
              = hero.status_effects[call'.arg.buff_effect]
     /\ (pc = "player_attack" /\ last'.op = "attack")
         => \A n \in DOMAIN enemies[last'.target].status_effects :
              /\ n \in DOMAIN enemies'[last'.target].status_effects
              /\ enemies'[last'.target].status_effects[n]
                   = enemies[last'.target].status_effects[n]]_vars

-----------------------------------------------------------------------------
(* Target selection in party_vs_enemies *)

\* C20: no attack is applied to a target whose health is already 0: the
\* target of every attack of either pass has health > 0 when it is chosen
TargetsAreLiving ==
  [][/\ (pc = "player_attack" /\ last'.op = "attack")
         => enemies[last'.target].health > 0
     /\ (pc = "enemy_attack" /\ last'.op = "attack")
         => player_party[last'.target].health > 0]_vars

-----------------------------------------------------------------------------
(* Player.check_level_up, called after an exp gain *)

\* C21: check_level_up returns with exp below the threshold 100 + (level-1)*20
\* of the level reached; the exp it removed is the sum of the thresholds of
\* the levels gained; each level gained adds the class increments to the base
\* stats; with a level gained health = max_health = base_health, with none
\* gained nothing changes
LevelUpContract ==
  [][(calls' # calls /\ call'.fn = "check_level_up") =>
       LET before == [hero EXCEPT !.exp = @ + call'.arg]
           after == hero'
           n == after.level - before.level
           gained == before.level..(after.level - 1)
           gain == LevelGains(before.char_class)
       IN /\ n >= 0
          /\ after.exp >= 0
          /\ after.exp < 100 + (after.level - 1) * 20
          /\ before.exp - after.exp
               = SumOver([l \in gained |-> 100 + (l - 1) * 20], gained)
          /\ after.base_health = before.base_health + n * gain[1]
          /\ after.base_attack = before.base_attack + n * gain[2]
          /\ after.base_defense = before.base_defense + n * gain[3]
          /\ after.base_magic = before.base_magic + n * gain[4]
          /\ n > 0 => /\ after.health = after.max_health
                      /\ after.max_health = after.base_health
          /\ n = 0 => after = before]_vars

\* one call took a fresh Player from level 1 to level 3: 250 = 100 + 120 + 30
LevelUpWitness ==
  /\ call.fn = "check_level_up"
  /\ call.arg = 250
  /\ hero.level = 3
  /\ hero.exp = 30
  /\ hero.health = hero.base_health

-----------------------------------------------------------------------------
(* Player.update_rank_progress, called up to MaxHeroCalls times on a       *)
(* Player that has reached any rank F..SSS with the counter at 0.          *)
(* rank_modifier = rank * 0.2 + 1 is carried in tenths.                    *)

\* variant: the counter is not reset when the rank advances
update_rank_progress_no_reset(p, difficulty) ==
  LET base_progress == difficulty * 10
      rank_modifier == p.current_rank * 2 + 10
      progress == p.rank_progress + (base_progress * rank_modifier) \div 10
  IN IF progress >= p.rank_threshold /\ p.current_rank # 9
       THEN [p EXCEPT !.current_rank = @ + 1,
                      !.rank_threshold = RANK_THRESHOLDS[p.current_rank + 1],
                      !.rank_progress = progress]
       ELSE [p EXCEPT !.rank_progress = progress]

update_rank_progress(p, difficulty) ==
  LET base_progress == difficulty * 10
      rank_modifier == p.current_rank * 2 + 10
      progress == p.rank_progress + (base_progress * rank_modifier) \div 10
  IN IF progress >= p.rank_threshold /\ p.current_rank # 9
       THEN [p EXCEPT !.current_rank = @ + 1,
                      !.rank_threshold = RANK_THRESHOLDS[p.current_rank + 1],
                      !.rank_progress = 0]
       ELSE [p EXCEPT !.rank_progress = progress]

Difficulties == {0, 5, 100, 2000}

InitRank ==
  /\ NoCombat
  /\ call = NoCall
  /\ relationships = NoRelationships
  /\ NoAudio
  /\ hero \in {[NewPlayer("Warrior") EXCEPT
                  !.current_rank = r, !.rank_threshold = RANK_THRESHOLDS[r]] :
                 r \in DOMAIN RANK_THRESHOLDS}

\* self.player.update_rank_progress(self.current_quest.difficulty)
UpdateRankProgress ==
  \E difficulty \in Difficulties :
    HeroCall("update_rank_progress", difficulty,
             update_rank_progress(hero, difficulty))

NextRank == UpdateRankProgress

SpecRank == InitRank /\ [][NextRank]_vars

\* C22: a call never lowers the rank nor takes it past SSS; it advances the
\* rank, by one step, exactly when the accumulated counter has reached the
\* rank's threshold and the rank is below SSS, and then resets the counter
\* and takes the new rank's threshold; below SSS the counter stays within
\* 0 .. rank_threshold - 1 after every call
RankContract ==
  [][(calls' # calls /\ call'.fn = "update_rank_progress") =>
       LET rank == hero.current_rank
           accumulated ==
             hero.rank_progress + (call'.arg * 10 * (rank * 2 + 10)) \div 10
           advanced == hero'.current_rank = rank + 1
       IN /\ hero'.current_rank \in {rank, rank + 1}
          /\ hero'.current_rank <= 9
          /\ advanced <=> (accumulated >= hero.rank_threshold /\ rank < 9)
          /\ advanced => /\ hero'.rank_progress = 0
                         /\ hero'.rank_threshold
                              = RANK_THRESHOLDS[hero'.current_rank]
          /\ ~advanced => /\ hero'.rank_progress = accumulated
                          /\ hero'.rank_threshold = hero.rank_threshold
          /\ hero'.current_rank < 9 =>
               /\ 0 <= hero'.rank_progress
               /\ hero'.rank_progress < hero'.rank_threshold]_vars

\* rank B (threshold 2000) was left by reaching the threshold exactly:
\* difficulty 100 adds int(1000 * 2.0) = 2000
RankWitness ==
  /\ call.fn = "update_rank_progress"
  /\ call.arg = 100
  /\ calls = 1
  /\ hero.current_rank = 6
  /\ hero.rank_progress = 0
  /\ hero.rank_threshold = 4000

-----------------------------------------------------------------------------
(* Automatic potion use in the player pass of party_vs_enemies *)

HealingItems(inventory) ==
  {k \in DOMAIN inventory :
     inventory[k].consumable /\ inventory[k].heal_value > 0}

\* C23: a step of the player pass on a Player that is alive, not Frozen or
\* Stunned, below 30% of max_health and holding a healing consumable removes
\* exactly the first healing consumable and raises health by
\* min(heal_value, max_health - health); on any other step of the pass the
\* actor's inventory and health stay as they are
AutoUseContract ==
  [][pc = "player_pass" =>
       LET char == player_party[idx]
           after == player_party'[idx]
           healing == HealingItems(char.inventory)
       IN IF /\ char.kind = "Player"
             /\ char.alive
             /\ Disabled(char) = {}
             /\ 10 * char.health < 3 * char.max_health
             /\ healing # {}
            THEN LET k == CHOOSE j \in healing : \A m \in healing : j <= m
                 IN /\ after.inventory = RemoveAt(char.inventory, k)
                    /\ after.health
                         = char.health + Min(char.inventory[k].heal_value,
                                             char.max_health - char.health)
            ELSE /\ after.inventory = char.inventory
                 /\ after.health = char.health]_vars

\* the Elixir, second in the satchel, was drunk and its heal of 8 capped at 6
AutoUseWitness ==
  /\ last.op = "auto_use"
  /\ player_party[last.actor].inventory = <<Booster, Potion>>
  /\ player_party[last.actor].health = 8
  /\ round_counter = 1

-----------------------------------------------------------------------------
(* Order of the steps of one round of party_vs_enemies, read off the       *)
(* history variable last: which step may follow which                      *)

TickSteps == {"tick", "tick_skip"}
CheckSteps == {"survive", "revive", "death"}
TurnSteps == {"dead_skip", "forfeit", "ready", "auto_use"}
TurnEnds == {"dead_skip", "forfeit", "attack"}

\* position of the step's actor in player_party + enemies
UnionIndex(l) ==
  IF l.side = "party" THEN l.actor ELSE Len(player_party) + l.actor

\* the step closes the tick of the last actor of player_party + enemies
TickDone(l) ==
  /\ l.op \in CheckSteps \cup {"tick_skip"}
  /\ UnionIndex(l) = Len(player_party) + Len(enemies)

\* the step closes the pass of the given side
PassDone(l, side) ==
  /\ l.side = side
  /\ \/ l.op = "break"
     \/ l.op \in TurnEnds /\ l.actor = Len(Roster(side))

\* C24: in every round the status tick, each followed by its death / revive
\* check, visits the actors of player_party + enemies in order, each once,
\* processing exactly those whose alive flag is set, and is complete before
\* the first turn; the turns of player_party, in roster order, are complete
\* before the first turn of enemies; a new round or the return follows the
\* enemy pass only
PhaseOrder ==
  [][last' # last =>
       /\ last'.op \in TickSteps =>
            /\ IF last.op = "round"
                 THEN UnionIndex(last') = 1
                 ELSE /\ last.op \in CheckSteps \cup {"tick_skip"}
                      /\ UnionIndex(last') = UnionIndex(last) + 1
            /\ last'.op = "tick" <=> Actor(<<last'.side, last'.actor>>).alive
       /\ last'.op \in CheckSteps =>
            /\ last.op = "tick"
            /\ last'.side = last.side /\ last'.actor = last.actor
       /\ (last'.op \in TurnSteps /\ last'.side = "party") =>
            \/ TickDone(last) /\ last'.actor = 1
            \/ /\ last.side = "party" /\ last.op \in TurnEnds
               /\ last'.actor = last.actor + 1
       /\ (last'.op \in TurnSteps /\ last'.side = "enemies") =>
            \/ PassDone(last, "party") /\ last'.actor = 1
            \/ /\ last.side = "enemies" /\ last.op \in TurnEnds
               /\ last'.actor = last.actor + 1
       /\ last'.op \in {"attack", "break"} =>
            /\ last.op \in {"ready", "auto_use"}
            /\ last'.side = last.side /\ last'.actor = last.actor
       /\ last'.op \in {"round", "return"} =>
            last.op = "call" \/ PassDone(last, "enemies")]_vars

\* the second of two enemies attacks in a later round
PhaseOrderWitness ==
  /\ last.op = "attack"
  /\ last.side = "enemies"
  /\ last.actor = 2
  /\ round_counter > 2

-----------------------------------------------------------------------------
(* Health of a created enemy *)

\* C25: every enemy returned by create_enemy has 0 <= health <= max_health
EnemyHealthWithinMax ==
  call.fn = "create_enemy" =>
    /\ 0 <= call.ret.health
    /\ call.ret.health <= call.ret.max_health

-----------------------------------------------------------------------------
(* WorldGenerator.generate_quest, a stand-alone call *)

\* the values of the QuestRank members F .. SSS
QuestRank == 1..9

\* TIER_QUESTS[rank value]: the five templates of the rank
TIER_QUESTS ==
  <<
    \* QuestRank.F
    <<
      [name |-> "Slime Extermination", desc_template |-> "Defeat {n} Slimes in the forest",
       target |-> "slimes", min_count |-> 3, max_count |-> 5],
      [name |-> "Rat Patrol", desc_template |-> "Clear {n} Giant Rats from the sewers",
       target |-> "rats", min_count |-> 2, max_count |-> 4],
      [name |-> "Herb Collection", desc_template |-> "Gather {n} medicinal herbs for the apothecary",
       target |-> "herbs", min_count |-> 5, max_count |-> 8],
      [name |-> "Lost Package", desc_template |-> "Recover {n} lost packages from the wilderness",
       target |-> "packages", min_count |-> 3, max_count |-> 5],
      [name |-> "Scout Duty", desc_template |-> "Patrol the village outskirts for {n} hours",
       target |-> "hours", min_count |-> 4, max_count |-> 6]
    >>,
    \* QuestRank.E
    <<
      [name |-> "Goblin Camp", desc_template |-> "Clear {n} Goblin camps near the village",
       target |-> "camps", min_count |-> 2, max_count |-> 3],
      [name |-> "Spider Silk", desc_template |-> "Collect {n} bundles of spider silk",
       target |-> "silk", min_count |-> 4, max_count |-> 6],
      [name |-> "Bandit Hunt", desc_template |-> "Defeat {n} bandits harassing travelers",
       target |-> "bandits", min_count |-> 3, max_count |-> 5],
      [name |-> "Ancient Relics", desc_template |-> "Recover {n} ancient relics from ruins",
       target |-> "relics", min_count |-> 2, max_count |-> 4],
      [name |-> "Wolves' Bane", desc_template |-> "Protect livestock from {n} wolves",
       target |-> "wolves", min_count |-> 4, max_count |-> 6]
    >>,
    \* QuestRank.D
    <<
      [name |-> "Orc Raid", desc_template |-> "Defeat {n} Orc raiders in the mountains",
       target |-> "orcs", min_count |-> 3, max_count |-> 5],
      [name |-> "Mystic Crystal", desc_template |-> "Find {n} Mystic Crystals in the Crystal Caverns",
       target |-> "crystals", min_count |-> 2, max_count |-> 4],
      [name |-> "Treasure Hunt", desc_template |-> "Retrieve {n} treasure chests from the pirate ship",
       target |-> "treasures", min_count |-> 3, max_count |-> 5],
      [name |-> "Forest Fire", desc_template |-> "Extinguish {n} forest fires",
       target |-> "fires", min_count |-> 4, max_count |-> 6],
      [name |-> "Desert Bandits", desc_template |-> "Defeat {n} Desert Bandits",
       target |-> "bandits", min_count |-> 3, max_count |-> 5]
    >>,
    \* QuestRank.C
    <<
      [name |-> "Troll Bridge", desc_template |-> "Build a bridge over the river using {n} trolls",
       target |-> "trolls", min_count |-> 2, max_count |-> 3],
      [name |-> "Haunted Mansion", desc_template |-> "Clear {n} ghosts from the haunted mansion",
       target |-> "ghosts", min_count |-> 4, max_count |-> 6],
      [name |-> "Mine Collapse", desc_template |-> "Rescue miners trapped in the collapsing mine",
       target |-> "miners", min_count |-> 3, max_count |-> 5],
      [name |-> "Dragon Cave", desc_template |-> "Defeat {n} baby dragons in the dragon cave",
       target |-> "dragons", min_count |-> 2, max_count |-> 4],
      [name |-> "Frozen Lake", desc_template |-> "Break the ice on the frozen lake",
       target |-> "ice", min_count |-> 4, max_count |-> 6]
    >>,
    \* QuestRank.B
    <<
      [name |-> "Golem Army", desc_template |-> "Defeat {n} stone golems",
       target |-> "golems", min_count |-> 3, max_count |-> 5],
      [name |-> "Phoenix Nest", desc_template |-> "Destroy {n} phoenix nests",
       target |-> "nests", min_count |-> 2, max_count |-> 4],
      [name |-> "Volcano Eruption", desc_template |-> "Contain the volcano eruption",
       target |-> "volcano", min_count |-> 3, max_count |-> 5],
      [name |-> "Haunted Forest", desc_template |-> "Clear the haunted forest",
       target |-> "forest", min_count |-> 4, max_count |-> 6],
      [name |-> "Ice Troll", desc_template |-> "Defeat {n} ice trolls",
       target |-> "trolls", min_count |-> 3, max_count |-> 5]
    >>,
    \* QuestRank.A
    <<
      [name |-> "Lich Tower", desc_template |-> "Defeat the lich in the tower",
       target |-> "lich", min_count |-> 1, max_count |-> 1],
      [name |-> "Demon Gate", desc_template |-> "Seal the demon gate",
       target |-> "gate", min_count |-> 1, max_count |-> 1],
      [name |-> "Mystical Dragon", desc_template |-> "Capture the mystical dragon",
       target |-> "dragon", min_count |-> 1, max_count |-> 1],
      [name |-> "Dark Wizard", desc_template |-> "Defeat the dark wizard",
       target |-> "wizard", min_count |-> 1, max_count |-> 1],
      [name |-> "Undead Army", desc_template |-> "Defeat the undead army",
       target |-> "army", min_count |-> 1, max_count |-> 1]
    >>,
    \* QuestRank.S
    <<
      [name |-> "Dragon Queen", desc_template |-> "Defeat the dragon queen",
       target |-> "queen", min_count |-> 1, max_count |-> 1],
      [name |-> "Devil's Lair", desc_template |-> "Destroy the devil's lair",
       target |-> "lair", min_count |-> 1, max_count |-> 1],
      [name |-> "Celestial Being", desc_template |-> "Summon a celestial being",
       target |-> "being", min_count |-> 1, max_count |-> 1],
      [name |-> "Eldritch Horror", desc_template |-> "Banish the eldritch horror",
       target |-> "horror", min_count |-> 1, max_count |-> 1],
      [name |-> "Time Guardian", desc_template |-> "Defeat the time guardian",
       target |-> "guardian", min_count |-> 1, max_count |-> 1]
    >>,
    \* QuestRank.SS
    <<
      [name |-> "Ancient God", desc_template |-> "Defeat the ancient god",
       target |-> "god", min_count |-> 1, max_count |-> 1],
      [name |-> "Primordial Chaos", desc_template |-> "Seal primordial chaos",
       target |-> "chaos", min_count |-> 1, max_count |-> 1],
      [name |-> "Cosmic Anomaly", desc_template |-> "Contain the cosmic anomaly",
       target |-> "anomaly", min_count |-> 1, max_count |-> 1],
      [name |-> "Dimensional Rift", desc_template |-> "Close the dimensional rift",
       target |-> "rift", min_count |-> 1, max_count |-> 1],
      [name |-> "Planar Invader", desc_template |-> "Defeat the planar invader",
       target |-> "invader", min_count |-> 1, max_count |-> 1]
    >>,
    \* QuestRank.SSS
    <<
      [name |-> "DemiGod Slayer", desc_template |-> "Defeat {n} Demi-Humans from the Astral Plane",
       target |-> "demihumans", min_count |-> 1, max_count |-> 1],
      [name |-> "Worldbreaker", desc_template |-> "Stop {n} Reality Collapse Events",
       target |-> "collapses", min_count |-> 1, max_count |-> 2],
      [name |-> "Titan's Fall", desc_template |-> "Slay {n} Primordial Titans",
       target |-> "titans", min_count |-> 1, max_count |-> 1],
      [name |-> "Void Walker", desc_template |-> "Close {n} Corrupted Dimension Rifts",
       target |-> "rifts", min_count |-> 1, max_count |-> 3],
      [name |-> "Eternal Champion", desc_template |-> "Win {n} Trials of the Infinite Arena",
       target |-> "trials", min_count |-> 3, max_count |-> 5]
    >>
  >>

\* the four texts generate_dynamic_story chooses from, by position
generate_dynamic_story == 1..4

Quest(name, description, difficulty, target, target_count, rewards) ==
  [name |-> name, description |-> description, difficulty |-> difficulty,
   target |-> target, target_count |-> target_count, rewards |-> rewards,
   success |-> "None"]

\* random.random() of the reward roll, thousandths
QuestRolls == {0, 700, 701, 999}

\* outcomes of ItemGenerator.generate_item(tier) with every draw at an end of
\* its range
ItemDraws(tier) ==
  IF randint(1, tier * 2) = {}
    THEN {Raised("ValueError")}
    ELSE {Returned(Item(a, d, m, v)) :
            a \in {1, tier * 2}, d \in {1, tier * 2}, m \in {1, tier * 2},
            v \in {10, 50}}

\* the quest built from one outcome of each draw, in the order of the code;
\* the item is generated only when the roll is above 0.7
QuestOf(player_rank, tpl, count, delta, story, roll, item) ==
  IF roll > 700 /\ item.raised
    THEN Raised(item.error)
    ELSE Returned(Quest(tpl.name, <<tpl.desc_template, count, story>>,
                        player_rank * 10 + delta, tpl.target, count,
                        [exp |-> 50 * player_rank, gold |-> 25 * player_rank,
                         items |-> IF roll > 700 THEN <<item.ret>> ELSE <<>>]))

\* variant: the count is drawn from min_count .. max_count + 1
generate_quest_wide(player_rank) ==
  LET templates == TIER_QUESTS[player_rank] IN
  UNION {{QuestOf(player_rank, tpl, count, delta, story, roll, item) :
            count \in randint(tpl.min_count, tpl.max_count + 1),
            delta \in randint(0 - 2, 2), story \in generate_dynamic_story,
            roll \in QuestRolls, item \in ItemDraws(player_rank)} :
         tpl \in choice(templates)}

\* the outcomes of WorldGenerator.generate_quest(player_rank)
generate_quest(player_rank) ==
  LET templates == TIER_QUESTS[player_rank] IN
  UNION {{QuestOf(player_rank, tpl, count, delta, story, roll, item) :
            count \in randint(tpl.min_count, tpl.max_count),
            delta \in randint(0 - 2, 2), story \in generate_dynamic_story,
            roll \in QuestRolls, item \in ItemDraws(player_rank)} :
         tpl \in choice(templates)}

InitQuest == NoCombat /\ NoObjects

GenerateQuest ==
  /\ pc = "standalone"
  /\ call.fn = "none"
  /\ \E player_rank \in QuestRank : \E out \in generate_quest(player_rank) :
       call' = [fn |-> "generate_quest", raised |-> out.raised,
                error |-> out.error, player_rank |-> player_rank,
                ret |-> out.ret]
  /\ UNCHANGED <<combat, hero, relationships, audio>>

NextQuest == GenerateQuest

SpecQuest == InitQuest /\ [][NextQuest]_vars

\* C26: for every rank value t in 1..9 generate_quest returns a quest built
\* from one of the five templates of that rank, with target_count inside the
\* template's range, difficulty in 10t-2 .. 10t+2, rewards exp = 50t and
\* gold = 25t, at most one reward item, and success unset
QuestContract ==
  call.fn = "generate_quest" =>
    LET t == call.player_rank
        q == call.ret IN
    /\ ~call.raised
    /\ Len(TIER_QUESTS[t]) = 5
    /\ \E tpl \in choice(TIER_QUESTS[t]) :
         /\ q.name = tpl.name
         /\ q.target = tpl.target
         /\ q.target_count \in tpl.min_count..tpl.max_count
    /\ q.difficulty \in (10 * t - 2)..(10 * t + 2)
    /\ q.rewards.exp = 50 * t
    /\ q.rewards.gold = 25 * t
    /\ Len(q.rewards.items) \in {0, 1}
    /\ q.success = "None"

QuestWitness ==
  /\ call.fn = "generate_quest"
  /\ call.player_rank = 9
  /\ call.ret.name = "Eternal Champion"
  /\ call.ret.target_count = 5
  /\ call.ret.difficulty = 92
  /\ Len(call.ret.rewards.items) = 1

-----------------------------------------------------------------------------
(* 2dlilgame: CombatSystem.party_vs_enemies with the flat elemental multiplier *)

\* 2dlilgame: ADVANTAGES[attacker element] lists the elements it is strong against
ADVANTAGES_2d ==
  [Fire |-> {"Air", "Dark"}, Water |-> {"Fire", "Earth"},
   Air |-> {"Water", "Light"}, Light |-> {"Air", "Dark"},
   Earth |-> {"Light", "Fire"}, Dark |-> {"Earth", "Water"}]

\* 2dlilgame: Character(name, health, attack, defense, magic, element, alignment)
Character_2d(health, attack, defense, element) ==
  [health |-> health, max_health |-> health, attack |-> attack,
   defense |-> defense, element |-> element, alive |-> TRUE]

\* int(), truncation toward zero, of tenths
int_tenths(x) == IF x >= 0 THEN x \div 10 ELSE 0 - ((0 - x) \div 10)

\* 2dlilgame: max(0, int((attack - defense) * element_multiplier))
calculate_damage_2d(attacker, defender) ==
  LET element_multiplier ==
        IF defender.element \in ADVANTAGES_2d[attacker.element]
          THEN 15 ELSE 10 IN
  Max(0, int_tenths((attacker.attack - defender.defense) * element_multiplier))

\* target.health = max(0, target.health - damage)
hit_2d(char, target) ==
  [target EXCEPT !.health = Max(0, target.health - calculate_damage_2d(char, target))]

Fighters_2d ==
  {Character_2d(3, 3, 1, "Fire"), Character_2d(2, 2, 3, "Air"),
   Character_2d(4, 4, 2, "Water")}

\* the non-empty rosters of one or two living fighters
Rosters_2d == {<<a>> : a \in Fighters_2d} \cup (Fighters_2d \X Fighters_2d)

Init_2d ==
  /\ player_party \in Rosters_2d
  /\ enemies \in Rosters_2d
  /\ pc = "guard_2d"
  /\ idx = 1
  /\ round_counter = 1
  /\ result = "None"
  /\ entry = [party |-> player_party, enemies |-> enemies]
  /\ round_start = [party |-> player_party, enemies |-> enemies]
  /\ last = Step("call", "none", 0, 0, 0)
  /\ zeroed = {}
  /\ calls = 0
  /\ midpoint = TRUE
  /\ NoObjects

\* while any(c.alive for c in player_party) and any(e.alive for e in enemies);
\* return any(c.alive for c in player_party)
LoopGuard_2d ==
  /\ pc = "guard_2d"
  /\ IF AnyAlive(player_party) /\ AnyAlive(enemies)
       THEN pc' = "party_2d" /\ UNCHANGED result
       ELSE /\ pc' = "done_2d"
            /\ result' = IF AnyAlive(player_party) THEN "True" ELSE "False"
  /\ idx' = 1
  /\ UNCHANGED <<player_party, enemies, round_counter, entry, round_start,
                 last, zeroed, calls, midpoint, objects>>

\* one iteration of "for char in player_party"
PartyTurn_2d ==
  /\ pc = "party_2d"
  /\ IF player_party[idx].alive
       THEN \E t \in Living(enemies) :
              enemies' =
                [enemies EXCEPT ![t] = hit_2d(player_party[idx], enemies[t])]
       ELSE UNCHANGED enemies
  /\ IF idx < Len(player_party)
       THEN idx' = idx + 1 /\ UNCHANGED pc
       ELSE idx' = 1 /\ pc' = "enemies_2d"
  /\ UNCHANGED <<player_party, round_counter, result, entry, round_start,
                 last, zeroed, calls, midpoint, objects>>

\* one iteration of "for enemy in enemies"
EnemyTurn_2d ==
  /\ pc = "enemies_2d"
  /\ IF enemies[idx].alive
       THEN \E t \in Living(player_party) :
              player_party' =
                [player_party EXCEPT ![t] = hit_2d(enemies[idx], player_party[t])]
       ELSE UNCHANGED player_party
  /\ IF idx < Len(enemies)
       THEN idx' = idx + 1 /\ UNCHANGED pc
       ELSE idx' = 1 /\ pc' = "deaths_2d"
  /\ UNCHANGED <<enemies, round_counter, result, entry, round_start,
                 last, zeroed, calls, midpoint, objects>>

\* for char in player_party + enemies: if char.health <= 0 and char.alive
CheckDeaths_2d ==
  /\ pc = "deaths_2d"
  /\ player_party' =
       [i \in DOMAIN player_party |->
          [player_party[i] EXCEPT
             !.alive = player_party[i].alive /\ ~(player_party[i].health <= 0)]]
  /\ enemies' =
       [i \in DOMAIN enemies |->
          [enemies[i] EXCEPT
             !.alive = enemies[i].alive /\ ~(enemies[i].health <= 0)]]
  /\ pc' = "guard_2d"
  /\ UNCHANGED <<idx, round_counter, result, entry, round_start,
                 last, zeroed, calls, midpoint, objects>>

Next_2d == LoopGuard_2d \/ PartyTurn_2d \/ EnemyTurn_2d \/ CheckDeaths_2d

Spec_2d == Init_2d /\ [][Next_2d]_vars

\* the loop keeps running while it has a step to take
FairSpec_2d == Spec_2d /\ WF_vars(Next_2d)

\* C27: the combat loop of the flat-multiplier variant returns for all
\* non-empty rosters of living actors
Terminates_2d == <>(pc = "done_2d")

-----------------------------------------------------------------------------
(* Relationships per subject *)

\* the record the observer holds for character c: self.relationships[c.name],
\* a fresh Relationship() when there is none yet
Held(rels, c) == IF c.name \in DOMAIN rels THEN rels[c.name] ELSE Relationship

\* C28: update_relationship(A, ...) appends exactly one entry to the history
\* held for A, keeps the earlier entries, and leaves the record held for every
\* other character B unchanged, also when B carries the name of A
RelationshipsIndependent ==
  [][relationships' # relationships =>
       LET A == call'.other
           old == Held(relationships, A).history
           new == Held(relationships', A).history
       IN /\ Len(new) = Len(old) + 1
          /\ SubSeq(new, 1, Len(old)) = old
          /\ \A B \in Others \ {A} :
               Held(relationships', B) = Held(relationships, B)]_vars

-----------------------------------------------------------------------------
(* Postcondition of party_vs_enemies *)

\* C29: when party_vs_enemies returns, every actor that entered with
\* alive = (health > 0) has alive = (health > 0) again (a Player is assumed
\* to have max_health >= 2)
ConsistentAtReturn ==
  pc = "done" =>
    \A a \in Actors :
      (/\ EntryActor(a).alive = (EntryActor(a).health > 0)
       /\ Actor(a).kind = "Player" => Actor(a).max_health >= 2)
        => Actor(a).alive = (Actor(a).health > 0)

\* the call returned after an actor was brought to health 0 and marked dead
\* and the Player was revived
ConsistentAtReturnWitness ==
  /\ pc = "done"
  /\ round_counter > 1
  /\ \E a \in Actors :
       /\ EntryActor(a).alive /\ EntryActor(a).health > 0
       /\ ~Actor(a).alive /\ Actor(a).health = 0
  /\ \E b \in Actors :
       /\ Actor(b).kind = "Player" /\ Actor(b).max_health >= 2
       /\ Actor(b).revives < EntryActor(b).revives
       /\ Actor(b).alive

-----------------------------------------------------------------------------
(* MusicPlayer: play() and stop() called from the main thread, interleaved   *)
(* line by line with the playback threads                                    *)

MaxPlays == 3    \* play() calls made, one Thread object each

Tracks == {"audio/main_menu.mp3", "audio/battle_intense.mp3"}

\* Thread.is_alive(): started and not yet terminated
is_alive(t) == threads[t].pc # "terminated"

\* threading.Thread(target=...) followed by start()
Thread(target) ==
  [target |-> target, pc |-> IF target = "_play_loop" THEN "test" ELSE "call",
   playing |-> "None"]

InitMusic == NoCombat /\ NoObjects

\* music_player.play(track, loop): enters at self.stop()
CallPlay ==
  /\ main.pc = "idle"
  /\ Len(threads) < MaxPlays
  /\ \E track \in Tracks, loop \in BOOLEAN :
       main' = [pc |-> "stop_test", fn |-> "play", track |-> track, loop |-> loop]
  /\ UNCHANGED <<combat, call, hero, relationships, music_player, threads>>

\* music_player.stop()
CallStop ==
  /\ main.pc = "idle"
  /\ main' = [pc |-> "stop_test", fn |-> "stop", track |-> "None", loop |-> FALSE]
  /\ UNCHANGED <<combat, call, hero, relationships, music_player, threads>>

\* return of stop(): to the caller, or to the rest of play()
StopReturn == [main EXCEPT !.pc = IF main.fn = "play" THEN "play_track" ELSE "idle"]

\* if self.thread and self.thread.is_alive()
StopTest ==
  /\ main.pc = "stop_test"
  /\ main' = IF music_player.thread # 0 /\ is_alive(music_player.thread)
               THEN [main EXCEPT !.pc = "stop_set"]
               ELSE StopReturn
  /\ UNCHANGED <<combat, call, hero, relationships, music_player, threads>>

\* self.stop_event.set()
StopSet ==
  /\ main.pc = "stop_set"
  /\ music_player' = [music_player EXCEPT !.stop_event = TRUE]
  /\ main' = [main EXCEPT !.pc = "stop_join"]
  /\ UNCHANGED <<combat, call, hero, relationships, threads>>

\* variant: stop() returns without waiting for the thread
StopJoin_no_wait ==
  /\ main.pc = "stop_join"
  /\ main' = StopReturn
  /\ UNCHANGED <<combat, call, hero, relationships, music_player, threads>>

\* self.thread.join(): blocks until the thread has terminated
StopJoin ==
  /\ main.pc = "stop_join"
  /\ ~is_alive(music_player.thread)
  /\ main' = StopReturn
  /\ UNCHANGED <<combat, call, hero, relationships, music_player, threads>>

\* self.track = track
PlayTrack ==
  /\ main.pc = "play_track"
  /\ music_player' = [music_player EXCEPT !.track = main.track]
  /\ main' = [main EXCEPT !.pc = "play_clear"]
  /\ UNCHANGED <<combat, call, hero, relationships, threads>>

\* self.stop_event.clear()
PlayClear ==
  /\ main.pc = "play_clear"
  /\ music_player' = [music_player EXCEPT !.stop_event = FALSE]
  /\ main' = [main EXCEPT !.pc = "play_start"]
  /\ UNCHANGED <<combat, call, hero, relationships, threads>>

\* self.thread = threading.Thread(...); self.thread.start()
PlayStart ==
  /\ main.pc = "play_start"
  /\ threads' = Append(threads,
                  Thread(IF main.loop THEN "_play_loop" ELSE "_play_once"))
  /\ music_player' = [music_player EXCEPT !.thread = Len(threads) + 1]
  /\ main' = [main EXCEPT !.pc = "idle"]
  /\ UNCHANGED <<combat, call, hero, relationships>>

\* _play_loop: while not self.stop_event.is_set()
LoopTest ==
  \E t \in DOMAIN threads :
    /\ threads[t].pc = "test"
    /\ threads' = [threads EXCEPT ![t].pc =
                     IF music_player.stop_event THEN "terminated" ELSE "call"]
    /\ UNCHANGED <<combat, call, hero, relationships, music_player, main>>

\* playsound(self.track) is entered
PlaysoundCall ==
  \E t \in DOMAIN threads :
    /\ threads[t].pc = "call"
    /\ threads' = [threads EXCEPT ![t].pc = "playing",
                                  ![t].playing = music_player.track]
    /\ UNCHANGED <<combat, call, hero, relationships, music_player, main>>

\* playsound returns: _play_once ends, _play_loop tests the event again
PlaysoundReturn ==
  \E t \in DOMAIN threads :
    /\ threads[t].pc = "playing"
    /\ threads' = [threads EXCEPT ![t].pc =
                     IF threads[t].target = "_play_loop" THEN "test"
                                                         ELSE "terminated"]
    /\ UNCHANGED <<combat, call, hero, relationships, music_player, main>>

\* playsound raises: the message is printed, _play_once ends and _play_loop
\* breaks
PlaysoundRaise ==
  \E t \in DOMAIN threads :
    /\ threads[t].pc = "playing"
    /\ threads' = [threads EXCEPT ![t].pc = "terminated"]
    /\ UNCHANGED <<combat, call, hero, relationships, music_player, main>>

ThreadStep == LoopTest \/ PlaysoundCall \/ PlaysoundReturn \/ PlaysoundRaise

NextMusic ==
  \/ CallPlay \/ CallStop \/ StopTest \/ StopSet \/ StopJoin
  \/ PlayTrack \/ PlayClear \/ PlayStart
  \/ LoopTest \/ PlaysoundCall \/ PlaysoundReturn \/ PlaysoundRaise

SpecMusic == InitMusic /\ [][NextMusic]_vars

AliveThreads == {t \in DOMAIN threads : is_alive(t)}

\* C30: at most one playback thread is alive at any time; while play() is past
\* its stop() no thread is alive, so a new thread starts only after the previous
\* one has terminated; when stop() has returned no thread is alive; a step of
\* a playback thread changes no game state and no field of the MusicPlayer
OnePlaybackThread ==
  /\ [](Cardinality(AliveThreads) <= 1)
  /\ [](main.pc \in {"play_track", "play_clear", "play_start"}
          => AliveThreads = {})
  /\ []((main.pc = "idle" /\ main.fn = "stop") => AliveThreads = {})
  /\ [][ThreadStep => UNCHANGED <<combat, call, hero, relationships,
                                  music_player>>]_vars
  /\ [][Len(threads') > Len(threads) => AliveThreads = {}]_vars

\* a third thread is playing after stop() had to wait for a looping thread
OnePlaybackThreadWitness ==
  /\ Len(threads) >= 3
  /\ threads[1].target = "_play_loop"
  /\ threads[1].playing # "None"
  /\ threads[2].playing # "None"
  /\ threads[3].pc = "playing"
  /\ threads[3].playing # threads[2].playing

====
